---- MODULE Spec2Model ----
(***************************************************************************)
(* A model of the wanwu provisioning scripts (build_api_gateway.py,        *)
(* build_lambda.py) and of the request handler (wanwu_lambda.py).          *)
(*                                                                         *)
(* The remote account (API Gateway, Lambda, IAM) is one record, `remote`.  *)
(* Every function of the scripts is an operator from the remote state, its *)
(* arguments and the remote call that is made to fail (if any) to a result *)
(* record: the remote state it leaves, its outcome (a return or the        *)
(* exception that leaves it), the value returned and the remote calls it   *)
(* issued, in order.                                                       *)
(***************************************************************************)
EXTENDS Integers, Sequences, FiniteSets, TLC

VARIABLES
    remote,   \* the remote account: what the control plane holds
    pre,      \* the remote account before the last operation
    last,     \* the last operation: [op, args, fail, out, ret, calls]
    pc,       \* main's position in build_api_gateway.main
    locals,   \* main's local variables: gateway_id, root, lamb, child
    run,      \* number of runs of main started
    runlog,   \* the remote calls issued by the current run, in order
    started,  \* the remote account when the current run started
    runs,     \* one record per finished run: [ok, start, remote]
    ncalls,   \* number of operations applied (SpecOps)
    event,    \* the inbound event of the handler (SpecHandler)
    response, \* what lambda_handler returned for `event`
    accept_header, \* the Accept header given to accept_types (SpecAccept)
    accepted  \* what accept_types yielded for `accept_header`

vars == <<remote, pre, last, pc, locals, run, runlog, started, runs, ncalls, event, response,
          accept_header, accepted>>

(***************************************************************************)
(* Program constants                                                       *)
(***************************************************************************)
GatewayName == "wanwu"                \* build_api_gateway._NAME
RoleName == "wanwu_lambda_role"       \* build_lambda._ROLE
LambdaName == "wanwu_lambda"          \* build_lambda._NAME
Timeout == 5                          \* build_lambda._TIMEOUT
limit == 100                          \* page size asked of both listings
ProxyPart == "{proxy+}"
ProxyPath == "/{proxy+}"
PolicyArn == "arn:aws:iam::aws:policy/service-role/AWSLambdaBasicExecutionRole"
AssumeRoleDoc == "lambda.amazonaws.com sts:AssumeRole"

(***************************************************************************)
(* Bounds of the model                                                     *)
(***************************************************************************)
MaxRuns == 2        \* runs of main in one behaviour
MaxCalls == 2       \* operations applied in one behaviour of SpecOps
MaxParts == 3       \* comma-separated parts of an Accept header

(***************************************************************************)
(* Results, outcomes and errors                                            *)
(***************************************************************************)
None == [none |-> TRUE]

Min(a, b) == IF a < b THEN a ELSE b

\* A botocore ClientError: its error code and the operation that raised it.
ClientError(code, operation) == [exc |-> "ClientError", code |-> code, operation |-> operation]
OverflowError == [exc |-> "OverflowError", code |-> "", operation |-> ""]
RuntimeError == [exc |-> "RuntimeError", code |-> "", operation |-> ""]
ValueError == [exc |-> "ValueError", code |-> "", operation |-> ""]
Ok == [exc |-> "", code |-> "", operation |-> ""]

\* The error a remote call raises when it is made to fail for a reason the
\* scripts do not expect (throttling, credentials, a network fault).
Fatal(operation) == ClientError("ServiceUnavailableException", operation)

\* `pat in str(err)`: str(err) is "An error occurred (<code>) when calling the
\* <operation> operation: ...". The codes the remote raises, and the patterns
\* the scripts look for that are substrings of each.
Substrings(code) ==
    CASE code = "ConflictException" -> {"ConflictException"}
      [] code = "ResourceConflictException" -> {"ConflictException", "ResourceConflictException"}
      [] code = "NotFoundException" -> {"NotFoundException"}
      [] code = "ResourceNotFoundException" -> {"ResourceNotFoundException"}
      [] code = "EntityAlreadyExists" -> {"EntityAlreadyExists"}
      [] code = "NoSuchEntity" -> {"NoSuchEntity"}
      [] OTHER -> {code}

InStr(pat, err) == pat \in Substrings(err.code)

\* What an operation of the scripts yields.
Res(r, out, ret, calls) == [r |-> r, out |-> out, ret |-> ret, calls |-> calls]

\* What a remote call yields: the remote state, the error ("" if none), the response.
Resp(r, err, resp) == [r |-> r, err |-> err, resp |-> resp]

Call(op, args) == [op |-> op, args |-> args]

\* Index of the first element of s that satisfies P (the element a `for` loop
\* with an early return stops at); 0 if none.
First(s, P(_)) ==
    LET hits == {i \in 1..Len(s) : P(s[i])}
    IN IF hits = {} THEN 0 ELSE CHOOSE i \in hits : \A j \in hits : i <= j

Filter(s, P(_)) == SelectSeq(s, P)

(***************************************************************************)
(* The remote control plane, as the scripts' call sites see it             *)
(***************************************************************************)
ApiResources(r, api) == Filter(r.resources, LAMBDA x: x.api = api)

NewApiId(r) == "g" \o ToString(Len(r.apis) + 1)
NewResourceId(r) == "r" \o ToString(Len(r.resources) + 1)
NewDeploymentId(r) == "d" \o ToString(Len(r.deployments) + 1)

\* get_rest_apis(limit=limit): the first page.
get_rest_apis(r, lim) ==
    Resp(r, Ok, [items |-> SubSeq(r.apis, 1, Min(Len(r.apis), lim))])

\* create_rest_api(name=name): a new API, which the remote gives a root resource.
create_rest_api(r, name) ==
    LET id == NewApiId(r)
        root == [id |-> NewResourceId(r), api |-> id, parentId |-> "", pathPart |-> "", path |-> "/"]
    IN Resp([r EXCEPT !.apis = Append(@, [id |-> id, name |-> name]),
                      !.resources = Append(@, root)],
            Ok, [id |-> id, name |-> name])

\* get_resources(restApiId, limit): the first page of the API's resources.
get_resources(r, api, lim) ==
    IF \A i \in 1..Len(r.apis) : r.apis[i].id # api
    THEN Resp(r, ClientError("NotFoundException", "GetResources"), None)
    ELSE LET all == ApiResources(r, api)
         IN Resp(r, Ok, [items |-> SubSeq(all, 1, Min(Len(all), lim))])

ChildPath(parentPath, part) ==
    IF parentPath = "/" THEN "/" \o part ELSE parentPath \o "/" \o part

\* create_resource(restApiId, parentId, pathPart)
create_resource(r, api, parentId, part) ==
    LET all == ApiResources(r, api)
        p == First(all, LAMBDA x: x.id = parentId)
    IN IF p = 0
       THEN Resp(r, ClientError("NotFoundException", "CreateResource"), None)
       ELSE IF \E i \in 1..Len(all) : all[i].parentId = parentId /\ all[i].pathPart = part
       THEN Resp(r, ClientError("ConflictException", "CreateResource"), None)
       ELSE LET new == [id |-> NewResourceId(r), api |-> api, parentId |-> parentId,
                        pathPart |-> part, path |-> ChildPath(all[p].path, part)]
            IN Resp([r EXCEPT !.resources = Append(@, new)], Ok, new)

MethodsAt(r, api, res, verb) ==
    {m \in r.methods : m.api = api /\ m.res = res /\ m.verb = verb}

\* get_method(restApiId, resourceId, httpMethod)
get_method(r, api, res, verb) ==
    IF MethodsAt(r, api, res, verb) = {}
    THEN Resp(r, ClientError("NotFoundException", "GetMethod"), None)
    ELSE Resp(r, Ok, CHOOSE m \in MethodsAt(r, api, res, verb) : TRUE)

\* put_method(restApiId, resourceId, httpMethod, authorizationType)
put_method(r, api, res, verb, auth) ==
    IF \A i \in 1..Len(r.resources) : ~(r.resources[i].api = api /\ r.resources[i].id = res)
    THEN Resp(r, ClientError("NotFoundException", "PutMethod"), None)
    ELSE IF MethodsAt(r, api, res, verb) # {}
    THEN Resp(r, ClientError("ConflictException", "PutMethod"), None)
    ELSE LET m == [api |-> api, res |-> res, verb |-> verb, auth |-> auth]
         IN Resp([r EXCEPT !.methods = @ \cup {m}], Ok, m)

\* put_integration(**args): sets the integration of an existing method.
put_integration(r, args) ==
    IF MethodsAt(r, args.restApiId, args.resourceId, args.httpMethod) = {}
    THEN Resp(r, ClientError("NotFoundException", "PutIntegration"), None)
    ELSE LET key(i) == <<i.restApiId, i.resourceId, i.httpMethod>>
         IN Resp([r EXCEPT !.integrations = {i \in @ : key(i) # key(args)} \cup {args}], Ok, args)

\* create_deployment(restApiId, stageName): a new deployment, which the stage then serves.
create_deployment(r, api, stageName) ==
    LET d == [id |-> NewDeploymentId(r), api |-> api]
        old == {s \in r.stages : s.api = api /\ s.stageName = stageName}
        metrics == IF old = {} THEN "false" ELSE (CHOOSE s \in old : TRUE).metrics
    IN Resp([r EXCEPT !.deployments = Append(@, d),
                      !.stages = (@ \ old) \cup {[api |-> api, stageName |-> stageName,
                                                  deploymentId |-> d.id, metrics |-> metrics]}],
            Ok, d)

\* update_stage(restApiId, stageName, patchOperations=[replace /*/*/metrics/enabled])
update_stage(r, api, stageName, value) ==
    LET old == {s \in r.stages : s.api = api /\ s.stageName = stageName}
    IN IF old = {}
       THEN Resp(r, ClientError("NotFoundException", "UpdateStage"), None)
       ELSE Resp([r EXCEPT !.stages = (@ \ old) \cup {[s EXCEPT !.metrics = value] : s \in old}],
                 Ok, [stageName |-> stageName])

(***************************************************************************)
(* Python values whose type decides a comparison                           *)
(***************************************************************************)
PyBytes(v) == [type |-> "bytes", v |-> v]
PyStr(v) == [type |-> "str", v |-> v]

\* Python's ==: a bytes object never equals a str.
PyEq(a, b) == a.type = b.type /\ a.v = b.v

\* hashlib.sha256(data).digest() and base64.b64encode, on the contents.
Sha256(data) == "sha256(" \o data \o ")"
B64(data) == "b64(" \o data \o ")"

(***************************************************************************)
(* Strings that are split: a sequence of tokens, ":" being one of them     *)
(***************************************************************************)
RECURSIVE Split(_, _)
\* s.split(sep): the fields between the separators.
Split(s, sep) ==
    LET i == First(s, LAMBDA t: t = sep)
    IN IF i = 0 THEN <<s>>
       ELSE <<SubSeq(s, 1, i - 1)>> \o Split(SubSeq(s, i + 1, Len(s)), sep)

RECURSIVE Join(_)
\* The characters of a token sequence, as one string.
Join(s) == IF s = <<>> THEN "" ELSE Head(s) \o Join(Tail(s))

Region == "us-east-1"
AccountId == "541056992659"

\* The ARN the remote gives a function.
FunctionArn(name) ==
    <<"arn", ":", "aws", ":", "lambda", ":", Region, ":", AccountId, ":", "function", ":">> \o name

\* An ARN of the shape arn:aws:lambda:<region>:<account>:function:<name>.
LambdaArn(region, account, name) ==
    <<"arn", ":", "aws", ":", "lambda", ":", region, ":", account, ":", "function", ":", name>>

\* Regions, accounts and function names an ARN is made of.
ArnRegions == {Region, "eu-west-1"}
ArnAccounts == {AccountId, "000000000001"}
ArnNames == {"wanwu_lambda", "my_lamb"}

RoleArn(name) == "arn:aws:iam::" \o AccountId \o ":role/" \o name

(***************************************************************************)
(* The remote control plane: IAM and Lambda                                *)
(***************************************************************************)
RolesNamed(r, name) == {x \in r.roles : x.RoleName = name}

\* create_role(RoleName, AssumeRolePolicyDocument)
create_role(r, name, doc) ==
    IF RolesNamed(r, name) # {}
    THEN Resp(r, ClientError("EntityAlreadyExists", "CreateRole"), None)
    ELSE LET role == [RoleName |-> name, Arn |-> RoleArn(name), AssumeRolePolicyDocument |-> doc]
         IN Resp([r EXCEPT !.roles = @ \cup {role}], Ok, [Role |-> role])

\* get_role(RoleName)
get_role(r, name) ==
    IF RolesNamed(r, name) = {}
    THEN Resp(r, ClientError("NoSuchEntity", "GetRole"), None)
    ELSE Resp(r, Ok, [Role |-> CHOOSE x \in RolesNamed(r, name) : TRUE])

\* attach_role_policy(RoleName, PolicyArn): attaching an attached policy changes nothing.
attach_role_policy(r, name, policy) ==
    IF RolesNamed(r, name) = {}
    THEN Resp(r, ClientError("NoSuchEntity", "AttachRolePolicy"), None)
    ELSE Resp([r EXCEPT !.attached = @ \cup {[RoleName |-> name, PolicyArn |-> policy]}], Ok, None)

FunctionsNamed(r, name) == {f \in r.functions : f.FunctionName = name}

\* The Configuration the remote reports of a function.
Configuration(f) ==
    [FunctionName |-> f.FunctionName, FunctionArn |-> FunctionArn(<<f.FunctionName>>),
     Runtime |-> f.Runtime, Role |-> f.Role, Handler |-> f.Handler,
     Timeout |-> f.Timeout, CodeSha256 |-> PyStr(B64(Sha256(f.Code)))]

\* get_function(FunctionName)
get_function(r, name) ==
    IF FunctionsNamed(r, name) = {}
    THEN Resp(r, ClientError("ResourceNotFoundException", "GetFunction"), None)
    ELSE Resp(r, Ok, [Configuration |-> Configuration(CHOOSE f \in FunctionsNamed(r, name) : TRUE)])

\* create_function(FunctionName, Runtime, Role, Handler, Code, Timeout)
create_function(r, a) ==
    IF FunctionsNamed(r, a.FunctionName) # {}
    THEN Resp(r, ClientError("ResourceConflictException", "CreateFunction"), None)
    ELSE LET f == [FunctionName |-> a.FunctionName, Runtime |-> a.Runtime, Role |-> a.Role,
                   Handler |-> a.Handler, Timeout |-> a.Timeout, Code |-> a.Code.ZipFile]
         IN Resp([r EXCEPT !.functions = @ \cup {f}], Ok, Configuration(f))

\* update_function_configuration(FunctionName, Timeout): answers the new Configuration.
update_function_configuration(r, name, timeout) ==
    IF FunctionsNamed(r, name) = {}
    THEN Resp(r, ClientError("ResourceNotFoundException", "UpdateFunctionConfiguration"), None)
    ELSE LET old == CHOOSE f \in FunctionsNamed(r, name) : TRUE
             new == [old EXCEPT !.Timeout = timeout]
         IN Resp([r EXCEPT !.functions = (@ \ {old}) \cup {new}], Ok, Configuration(new))

\* update_function_code(FunctionName, ZipFile)
update_function_code(r, name, zip) ==
    IF FunctionsNamed(r, name) = {}
    THEN Resp(r, ClientError("ResourceNotFoundException", "UpdateFunctionCode"), None)
    ELSE LET old == CHOOSE f \in FunctionsNamed(r, name) : TRUE
             new == [old EXCEPT !.Code = zip]
         IN Resp([r EXCEPT !.functions = (@ \ {old}) \cup {new}], Ok, Configuration(new))

\* add_permission(FunctionName, StatementId, Action, Principal): a statement id
\* is granted once in a function's policy.
add_permission(r, a) ==
    IF FunctionsNamed(r, a.FunctionName) = {}
    THEN Resp(r, ClientError("ResourceNotFoundException", "AddPermission"), None)
    ELSE IF \E st \in r.policy : st.FunctionName = a.FunctionName /\ st.StatementId = a.StatementId
    THEN Resp(r, ClientError("ResourceConflictException", "AddPermission"), None)
    ELSE Resp([r EXCEPT !.policy = @ \cup {a}], Ok, a)

\* A remote call that is made to fail raises and changes nothing.
Inject(fail, name, r, resp) ==
    IF fail = name THEN Resp(r, Fatal(name), None) ELSE resp

(***************************************************************************)
(* build_api_gateway.py                                                    *)
(***************************************************************************)

\* A create_gateway that creates without looking at the listing.
create_gateway_blind(r, name, fail) ==
    LET created == Inject(fail, "create_rest_api", r, create_rest_api(r, name))
        c1 == <<Call("create_rest_api", [name |-> name])>>
    IN IF created.err # Ok THEN Res(r, created.err, None, c1)
       ELSE Res(created.r, Ok, created.resp.id, c1)

\* A create_gateway that takes the first gateway listed, whatever its name.
create_gateway_any(r, name, fail) ==
    LET listing == Inject(fail, "get_rest_apis", r, get_rest_apis(r, limit))
        c1 == <<Call("get_rest_apis", [limit |-> limit])>>
    IN IF listing.err # Ok THEN Res(r, listing.err, None, c1)
       ELSE LET gateways == listing.resp.items
            IN IF Len(gateways) >= limit THEN Res(r, OverflowError, None, c1)
               ELSE IF Len(gateways) > 0 THEN Res(r, Ok, gateways[1].id, c1)
               ELSE LET created == Inject(fail, "create_rest_api", r, create_rest_api(r, name))
                        c2 == Append(c1, Call("create_rest_api", [name |-> name]))
                    IN IF created.err # Ok THEN Res(r, created.err, None, c2)
                       ELSE Res(created.r, Ok, created.resp.id, c2)

\* create_gateway(client, name)
create_gateway(r, name, fail) ==
    LET listing == Inject(fail, "get_rest_apis", r, get_rest_apis(r, limit))
        c1 == <<Call("get_rest_apis", [limit |-> limit])>>
    IN IF listing.err # Ok THEN Res(r, listing.err, None, c1)
       ELSE LET gateways == listing.resp.items
            IN IF Len(gateways) >= limit THEN Res(r, OverflowError, None, c1)
               ELSE LET i == First(gateways, LAMBDA g: g.name = name)
                    IN IF i # 0 THEN Res(r, Ok, gateways[i].id, c1)
                       ELSE LET created == Inject(fail, "create_rest_api", r, create_rest_api(r, name))
                                c2 == Append(c1, Call("create_rest_api", [name |-> name]))
                            IN IF created.err # Ok THEN Res(r, created.err, None, c2)
                               ELSE Res(created.r, Ok, created.resp.id, c2)

\* A resource_by_path that accepts a full page: `>` for `>=`.
resource_by_path_full_page(r, gateway_id, path, fail) ==
    LET listing == Inject(fail, "get_resources", r, get_resources(r, gateway_id, limit))
        c1 == <<Call("get_resources", [restApiId |-> gateway_id, limit |-> limit])>>
    IN IF listing.err # Ok THEN Res(r, listing.err, None, c1)
       ELSE LET resources == listing.resp.items
            IN IF Len(resources) > limit THEN Res(r, OverflowError, None, c1)
               ELSE LET i == First(resources, LAMBDA x: x.path = path)
                    IN IF i # 0 THEN Res(r, Ok, resources[i], c1)
                       ELSE Res(r, RuntimeError, None, c1)

\* A resource_by_path that falls back to the first resource listed.
resource_by_path_fallback(r, gateway_id, path, fail) ==
    LET listing == Inject(fail, "get_resources", r, get_resources(r, gateway_id, limit))
        c1 == <<Call("get_resources", [restApiId |-> gateway_id, limit |-> limit])>>
    IN IF listing.err # Ok THEN Res(r, listing.err, None, c1)
       ELSE LET resources == listing.resp.items
            IN IF Len(resources) >= limit THEN Res(r, OverflowError, None, c1)
               ELSE LET i == First(resources, LAMBDA x: x.path = path)
                    IN IF i # 0 THEN Res(r, Ok, resources[i], c1)
                       ELSE IF Len(resources) > 0 THEN Res(r, Ok, resources[1], c1)
                       ELSE Res(r, RuntimeError, None, c1)

\* resource_by_path(client, gateway_id, path)
resource_by_path(r, gateway_id, path, fail) ==
    LET listing == Inject(fail, "get_resources", r, get_resources(r, gateway_id, limit))
        c1 == <<Call("get_resources", [restApiId |-> gateway_id, limit |-> limit])>>
    IN IF listing.err # Ok THEN Res(r, listing.err, None, c1)
       ELSE LET resources == listing.resp.items
            IN IF Len(resources) >= limit THEN Res(r, OverflowError, None, c1)
               ELSE LET i == First(resources, LAMBDA x: x.path = path)
                    IN IF i # 0 THEN Res(r, Ok, resources[i], c1)
                       ELSE Res(r, RuntimeError, None, c1)

\* _new_wild_child(client, gateway_id, parent_resource_id)
new_wild_child(r, gateway_id, parent_resource_id, fail) ==
    LET created == Inject(fail, "create_resource", r,
                          create_resource(r, gateway_id, parent_resource_id, ProxyPart))
        c1 == <<Call("create_resource", [restApiId |-> gateway_id,
                                         parentId |-> parent_resource_id,
                                         pathPart |-> ProxyPart])>>
    IN IF created.err # Ok THEN Res(r, created.err, None, c1)
       ELSE Res(created.r, Ok, created.resp, c1)

\* A wild_child for which a conflict is an error like any other.
wild_child_no_fallback(r, gateway_id, parent_resource_id, fail) ==
    new_wild_child(r, gateway_id, parent_resource_id, fail)

\* wild_child(client, gateway_id, parent_resource_id)
wild_child(r, gateway_id, parent_resource_id, fail) ==
    LET try == new_wild_child(r, gateway_id, parent_resource_id, fail)
    IN IF try.out = Ok THEN try
       ELSE IF ~InStr("ConflictException", try.out) THEN try
       ELSE LET found == resource_by_path(try.r, gateway_id, ProxyPath, fail)
            IN Res(found.r, found.out, found.ret, try.calls \o found.calls)

\* A create_method that puts the method without looking it up.
create_method_put_always(r, gateway_id, resource_id, method, fail) ==
    LET put == Inject(fail, "put_method", r,
                      put_method(r, gateway_id, resource_id, method, "NONE"))
        c1 == <<Call("put_method", [restApiId |-> gateway_id, resourceId |-> resource_id,
                                    httpMethod |-> method, authorizationType |-> "NONE"])>>
    IN IF put.err # Ok /\ ~InStr("ConflictException", put.err) THEN Res(r, put.err, None, c1)
       ELSE IF put.err # Ok
       THEN Res(r, Ok, get_method(r, gateway_id, resource_id, method).resp, c1)
       ELSE Res(put.r, Ok, put.resp, c1)

\* create_method(client, gateway_id, resource_id, method)
create_method(r, gateway_id, resource_id, method, fail) ==
    LET a == [restApiId |-> gateway_id, resourceId |-> resource_id, httpMethod |-> method]
        got == Inject(fail, "get_method", r, get_method(r, gateway_id, resource_id, method))
        c1 == <<Call("get_method", a)>>
    IN IF got.err = Ok
       THEN LET again == Inject(fail, "get_method#2", r,
                                get_method(r, gateway_id, resource_id, method))
                c2 == Append(c1, Call("get_method", a))
            IN IF again.err # Ok THEN Res(r, again.err, None, c2)
               ELSE Res(r, Ok, again.resp, c2)
       ELSE IF ~InStr("NotFoundException", got.err) THEN Res(r, got.err, None, c1)
       ELSE LET put == Inject(fail, "put_method", r,
                              put_method(r, gateway_id, resource_id, method, "NONE"))
                c2 == Append(c1, Call("put_method", [restApiId |-> gateway_id,
                                                     resourceId |-> resource_id,
                                                     httpMethod |-> method,
                                                     authorizationType |-> "NONE"]))
            IN IF put.err # Ok THEN Res(r, put.err, None, c2)
               ELSE Res(put.r, Ok, put.resp, c2)

ArnLabels == <<"'arn'", "'aws'", "'lambda'", "region", "account_id", "'function'", "function_name">>

\* A lambda_arn_parts whose labels start at the second field of the ARN.
lambda_arn_parts_shifted(arn) ==
    LET fields == Tail(Split(arn, ":"))
        n == Min(Len(ArnLabels), Len(fields))
    IN [k \in {ArnLabels[i] : i \in 1..n} |->
            Join(fields[CHOOSE i \in 1..n : ArnLabels[i] = k])]

\* lambda_arn_parts(arn): dict(zip(labels, arn.split(':')))
lambda_arn_parts(arn) ==
    LET fields == Split(arn, ":")
        n == Min(Len(ArnLabels), Len(fields))
    IN [k \in {ArnLabels[i] : i \in 1..n} |->
            Join(fields[CHOOSE i \in 1..n : ArnLabels[i] = k])]

\* The uri create_integration formats from the parts of the ARN.
IntegrationUri(arn) ==
    "arn:aws:apigateway:" \o arn["region"] \o ":lambda:path/2015-03-31/functions/"
    \o "arn:aws:lambda:" \o arn["region"] \o ":" \o arn["account_id"]
    \o ":function:" \o arn["function_name"] \o "/invocations"

\* A statement id that leaves the resource out.
StatementId_no_resource(gateway_id, resource_id, method, function_name) ==
    gateway_id \o "-" \o method \o "-" \o function_name

\* '{}-{}-{}-{}'.format(gateway_id, resource_id, method, function_name)
StatementId(gateway_id, resource_id, method, function_name) ==
    gateway_id \o "-" \o resource_id \o "-" \o method \o "-" \o function_name

\* create_integration(gateway_client, lambda_client, gateway_id, resource_id, method, lamb)
create_integration(r, gateway_id, resource_id, method, lamb, fail) ==
    LET arn == lambda_arn_parts(lamb.Configuration.FunctionArn)
        args == [restApiId |-> gateway_id, resourceId |-> resource_id, httpMethod |-> method,
                 type |-> "AWS_PROXY", integrationHttpMethod |-> "POST",
                 uri |-> IntegrationUri(arn)]
        integration == Inject(fail, "put_integration", r, put_integration(r, args))
        c1 == <<Call("put_integration", args)>>
    IN IF integration.err # Ok THEN Res(r, integration.err, None, c1)
       ELSE LET perm == [FunctionName |-> arn["function_name"],
                         StatementId |-> StatementId(gateway_id, resource_id, method,
                                                     arn["function_name"]),
                         Action |-> "lambda:InvokeFunction",
                         Principal |-> "apigateway.amazonaws.com"]
                added == Inject(fail, "add_permission", integration.r,
                                add_permission(integration.r, perm))
                c2 == Append(c1, Call("add_permission", perm))
            IN IF added.err = Ok \/ InStr("ConflictException", added.err)
               THEN Res(added.r, Ok, integration.resp, c2)
               ELSE Res(added.r, added.err, None, c2)

(***************************************************************************)
(* build_lambda.py                                                         *)
(***************************************************************************)

\* assign_lambda_policy(iam_client, role_name)
assign_lambda_policy(r, role_name, fail) ==
    LET att == Inject(fail, "attach_role_policy", r, attach_role_policy(r, role_name, PolicyArn))
        c1 == <<Call("attach_role_policy", [RoleName |-> role_name, PolicyArn |-> PolicyArn])>>
    IN IF att.err # Ok THEN Res(r, att.err, None, c1) ELSE Res(att.r, Ok, None, c1)

\* A lambda_role that attaches the policy to a role it created only.
lambda_role_attach_new_only(r, role_name, fail) ==
    LET created == Inject(fail, "create_role", r, create_role(r, role_name, AssumeRoleDoc))
        c1 == <<Call("create_role", [RoleName |-> role_name,
                                     AssumeRolePolicyDocument |-> AssumeRoleDoc])>>
        got == Inject(fail, "get_role", r, get_role(r, role_name))
        c2 == Append(c1, Call("get_role", [RoleName |-> role_name]))
    IN IF created.err = Ok
       THEN LET assigned == assign_lambda_policy(created.r, role_name, fail)
            IN IF assigned.out # Ok
               THEN Res(assigned.r, assigned.out, None, c1 \o assigned.calls)
               ELSE Res(assigned.r, Ok, created.resp.Role, c1 \o assigned.calls)
       ELSE IF ~InStr("EntityAlreadyExists", created.err) THEN Res(r, created.err, None, c1)
       ELSE IF got.err # Ok THEN Res(r, got.err, None, c2)
       ELSE Res(r, Ok, got.resp.Role, c2)

\* lambda_role(iam_client, role_name)
lambda_role(r, role_name, fail) ==
    LET created == Inject(fail, "create_role", r, create_role(r, role_name, AssumeRoleDoc))
        c1 == <<Call("create_role", [RoleName |-> role_name,
                                     AssumeRolePolicyDocument |-> AssumeRoleDoc])>>
        got == Inject(fail, "get_role", r, get_role(r, role_name))
        c2 == Append(c1, Call("get_role", [RoleName |-> role_name]))
        \* the try statement: the role, or the exception that leaves it
        try == IF created.err = Ok THEN Res(created.r, Ok, created.resp.Role, c1)
               ELSE IF ~InStr("EntityAlreadyExists", created.err) THEN Res(r, created.err, None, c1)
               ELSE IF got.err # Ok THEN Res(r, got.err, None, c2)
               ELSE Res(r, Ok, got.resp.Role, c2)
    IN IF try.out # Ok THEN try
       ELSE LET assigned == assign_lambda_policy(try.r, try.ret.RoleName, fail)
            IN IF assigned.out # Ok
               THEN Res(assigned.r, assigned.out, None, try.calls \o assigned.calls)
               ELSE Res(assigned.r, Ok, try.ret, try.calls \o assigned.calls)

\* create_deploy_package(from_file): the bytes of the zip archive of the file.
create_deploy_package(from_file) == "zip(" \o from_file \o ")"

\* A create_lambda that leaves the timeout of a function that exists as it is.
create_lambda_keep_timeout(r, name, role_arn, fail) ==
    LET package == create_deploy_package(name \o ".py")
        read == Inject(fail, "get_function", r, get_function(r, name))
        c1 == <<Call("get_function", [FunctionName |-> name])>>
        \* the final get_function and return
        Reread(r2, calls) ==
            LET again == Inject(fail, "get_function#2", r2, get_function(r2, name))
                c == Append(calls, Call("get_function", [FunctionName |-> name]))
            IN IF again.err # Ok THEN Res(r2, again.err, None, c)
               ELSE Res(r2, Ok, again.resp, c)
    IN IF read.err # Ok
       THEN IF ~InStr("ResourceNotFoundException", read.err) THEN Res(r, read.err, None, c1)
            ELSE LET a == [FunctionName |-> name, Runtime |-> "python3.6", Role |-> role_arn,
                           Handler |-> name \o ".lambda_handler",
                           Code |-> [ZipFile |-> package], Timeout |-> Timeout]
                     made == Inject(fail, "create_function", r, create_function(r, a))
                     c2 == Append(c1, Call("create_function", a))
                 IN IF made.err # Ok THEN Res(r, made.err, None, c2)
                    ELSE Reread(made.r, c2)
       ELSE LET drift == FALSE
                conf == Inject(fail, "update_function_configuration", r,
                               update_function_configuration(r, name, Timeout))
                c2 == IF drift
                      THEN Append(c1, Call("update_function_configuration",
                                           [FunctionName |-> name, Timeout |-> Timeout]))
                      ELSE c1
            IN IF drift /\ conf.err # Ok THEN Res(r, conf.err, None, c2)
               ELSE LET r2 == IF drift THEN conf.r ELSE r
                        read_lambda == IF drift
                                       THEN [read.resp EXCEPT !.Configuration = conf.resp]
                                       ELSE read.resp
                        local_sig == Sha256(package)
                        lambda_sig == read_lambda.Configuration.CodeSha256
                    IN IF PyEq(PyBytes(B64(local_sig)), lambda_sig)
                       THEN Res(r2, Ok, read_lambda, c2)
                       ELSE LET up == Inject(fail, "update_function_code", r2,
                                             update_function_code(r2, name, package))
                                c3 == Append(c2, Call("update_function_code",
                                                      [FunctionName |-> name, ZipFile |-> package]))
                            IN IF up.err # Ok THEN Res(r2, up.err, None, c3)
                               ELSE Reread(up.r, c3)

\* create_lambda(lambda_client, name, role_arn)
create_lambda(r, name, role_arn, fail) ==
    LET package == create_deploy_package(name \o ".py")
        read == Inject(fail, "get_function", r, get_function(r, name))
        c1 == <<Call("get_function", [FunctionName |-> name])>>
        \* the final get_function and return
        Reread(r2, calls) ==
            LET again == Inject(fail, "get_function#2", r2, get_function(r2, name))
                c == Append(calls, Call("get_function", [FunctionName |-> name]))
            IN IF again.err # Ok THEN Res(r2, again.err, None, c)
               ELSE Res(r2, Ok, again.resp, c)
    IN IF read.err # Ok
       THEN IF ~InStr("ResourceNotFoundException", read.err) THEN Res(r, read.err, None, c1)
            ELSE LET a == [FunctionName |-> name, Runtime |-> "python3.6", Role |-> role_arn,
                           Handler |-> name \o ".lambda_handler",
                           Code |-> [ZipFile |-> package], Timeout |-> Timeout]
                     made == Inject(fail, "create_function", r, create_function(r, a))
                     c2 == Append(c1, Call("create_function", a))
                 IN IF made.err # Ok THEN Res(r, made.err, None, c2)
                    ELSE Reread(made.r, c2)
       ELSE LET drift == read.resp.Configuration.Timeout # Timeout
                conf == Inject(fail, "update_function_configuration", r,
                               update_function_configuration(r, name, Timeout))
                c2 == IF drift
                      THEN Append(c1, Call("update_function_configuration",
                                           [FunctionName |-> name, Timeout |-> Timeout]))
                      ELSE c1
            IN IF drift /\ conf.err # Ok THEN Res(r, conf.err, None, c2)
               ELSE LET r2 == IF drift THEN conf.r ELSE r
                        read_lambda == IF drift
                                       THEN [read.resp EXCEPT !.Configuration = conf.resp]
                                       ELSE read.resp
                        local_sig == Sha256(package)
                        lambda_sig == read_lambda.Configuration.CodeSha256
                    IN IF PyEq(PyBytes(B64(local_sig)), lambda_sig)
                       THEN Res(r2, Ok, read_lambda, c2)
                       ELSE LET up == Inject(fail, "update_function_code", r2,
                                             update_function_code(r2, name, package))
                                c3 == Append(c2, Call("update_function_code",
                                                      [FunctionName |-> name, ZipFile |-> package]))
                            IN IF up.err # Ok THEN Res(r2, up.err, None, c3)
                               ELSE Reread(up.r, c3)

\* build_lambda(): the role, then the function.
build_lambda(r, fail) ==
    LET role == lambda_role(r, RoleName, fail)
    IN IF role.out # Ok THEN role
       ELSE LET lamb == create_lambda(role.r, LambdaName, role.ret.Arn, fail)
            IN Res(lamb.r, lamb.out, lamb.ret, role.calls \o lamb.calls)

(***************************************************************************)
(* Remote accounts a run can start from                                    *)
(***************************************************************************)
\* The account holds nOther gateways of other names, then nWanwu gateways named
\* GatewayName. Every gateway has its root resource; the first gateway named
\* GatewayName may have the wildcard child, `extras` further children of its
\* root, and a GET method on its root.
Account(nOther, nWanwu, child, extras, rootMethod, role, fn, perm) ==
    LET nApis == nOther + nWanwu
        apiId(i) == IF i <= nOther THEN "o" \o ToString(i) ELSE "w" \o ToString(i - nOther)
        apis == [i \in 1..nApis |->
                    [id |-> apiId(i), name |-> IF i <= nOther THEN "other" ELSE GatewayName]]
        w == apiId(nOther + 1)
        rootId == "r" \o ToString(nOther + 1)
        nChild == IF nWanwu > 0 /\ child THEN 1 ELSE 0
        nExtra == IF nWanwu > 0 THEN extras ELSE 0
        resources == [i \in 1..(nApis + nChild + nExtra) |->
            IF i <= nApis
            THEN [id |-> "r" \o ToString(i), api |-> apiId(i), parentId |-> "",
                  pathPart |-> "", path |-> "/"]
            ELSE IF i <= nApis + nChild
            THEN [id |-> "r" \o ToString(i), api |-> w, parentId |-> rootId,
                  pathPart |-> ProxyPart, path |-> ProxyPath]
            ELSE [id |-> "r" \o ToString(i), api |-> w, parentId |-> rootId,
                  pathPart |-> "x" \o ToString(i), path |-> "/x" \o ToString(i)]]
        f == [FunctionName |-> LambdaName, Runtime |-> "python3.6", Role |-> RoleArn(RoleName),
              Handler |-> LambdaName \o ".lambda_handler", Timeout |-> fn.Timeout, Code |-> fn.Code]
    IN [apis |-> apis,
        resources |-> resources,
        methods |-> IF nWanwu > 0 /\ rootMethod # "absent"
                    THEN {[api |-> w, res |-> rootId, verb |-> "GET", auth |-> rootMethod]}
                    ELSE {},
        integrations |-> {},
        deployments |-> <<>>,
        stages |-> {},
        roles |-> IF role = "absent" THEN {}
                  ELSE {[RoleName |-> RoleName, Arn |-> RoleArn(RoleName),
                         AssumeRolePolicyDocument |-> AssumeRoleDoc]},
        attached |-> IF role = "attached"
                     THEN {[RoleName |-> RoleName, PolicyArn |-> PolicyArn]} ELSE {},
        functions |-> IF fn.exists THEN {f} ELSE {},
        policy |-> IF fn.exists /\ nWanwu > 0 /\ perm
                   THEN {[FunctionName |-> LambdaName,
                          StatementId |-> StatementId(w, rootId, "GET", LambdaName),
                          Action |-> "lambda:InvokeFunction",
                          Principal |-> "apigateway.amazonaws.com"]}
                   ELSE {}]

NoFunction == [exists |-> FALSE, Timeout |-> Timeout, Code |-> ""]
Deployed(timeout, code) == [exists |-> TRUE, Timeout |-> timeout, Code |-> code]
LocalPackage == create_deploy_package(LambdaName \o ".py")

\* Gateway counts around the page size, without and with gateways of the name.
OtherCounts == {0, limit - 2, limit - 1, limit}
ExtraCounts == {0, limit - 3, limit - 2}
RemoteFunctions ==
    {NoFunction} \cup {Deployed(t, c) : t \in {Timeout, 3}, c \in {LocalPackage, "zip(old)"}}

GatewayAccounts ==
    {Account(o, 0, FALSE, 0, "absent", "absent", NoFunction, FALSE) : o \in OtherCounts}
    \cup {Account(0, n, c, e, m, "attached", Deployed(Timeout, LocalPackage), FALSE) :
            n \in {1, 2}, c \in BOOLEAN, e \in {0, limit - 2}, m \in {"absent", "AWS_IAM"}}
    \cup {Account(limit - 2, n, FALSE, 0, "absent", "attached",
                   Deployed(Timeout, LocalPackage), FALSE) : n \in {1, 2}}

LambdaAccounts ==
    {Account(0, n, FALSE, 0, IF n = 0 THEN "absent" ELSE "NONE", ro, f, p) :
        n \in {0, 1}, ro \in {"absent", "bare"},
        f \in {NoFunction, Deployed(Timeout, LocalPackage), Deployed(3, "zip(old)")},
        p \in BOOLEAN}

Accounts == GatewayAccounts \cup LambdaAccounts

\* The accounts the functions are called on one at a time: the gateway listing
\* around the page size, the resource listing around the page size, and the
\* states of the role, the function and its policy.
OpsAccounts ==
    {Account(o, n, FALSE, 0, "absent", "absent", NoFunction, FALSE) :
        o \in OtherCounts, n \in {0, 1, 2}}
    \cup {Account(0, 1, c, e, m, "attached", Deployed(Timeout, LocalPackage), FALSE) :
            c \in BOOLEAN, e \in ExtraCounts, m \in {"absent", "NONE", "AWS_IAM"}}
    \cup {Account(0, 1, TRUE, 0, "NONE", ro, f, p) :
            ro \in {"absent", "bare", "attached"}, f \in RemoteFunctions, p \in BOOLEAN}

(***************************************************************************)
(* State                                                                   *)
(***************************************************************************)
NoLocals == [gateway_id |-> "", root |-> None, lamb |-> None, child |-> None]
NoOp == [op |-> "", args |-> None, fail |-> "", out |-> Ok, ret |-> None, calls |-> <<>>]
NoEvent == [path |-> None]

Start(accounts) ==
    /\ remote \in accounts
    /\ pre = remote
    /\ last = NoOp
    /\ pc = "idle"
    /\ locals = NoLocals
    /\ run = 0
    /\ runlog = <<>>
    /\ started = remote
    /\ runs = <<>>
    /\ ncalls = 0
    /\ event = NoEvent
    /\ response = [statusCode |-> 0, body |-> <<>>, headers |-> <<>>]
    /\ accept_header = <<>>
    /\ accepted = [out |-> <<>>, ret |-> None]

Init == Start(Accounts)

CallNames(calls) == [i \in 1..Len(calls) |-> calls[i].op]

(***************************************************************************)
(* build_api_gateway.main, one action per statement                        *)
(***************************************************************************)
\* A statement of main ran with result res: main goes on to `next` with its
\* locals updated, or the exception leaves main and the run is over.
Advance(op, args, fail, res, next, newlocals) ==
    /\ pre' = remote
    /\ remote' = res.r
    /\ last' = [op |-> op, args |-> args, fail |-> fail, out |-> res.out, ret |-> res.ret, calls |-> res.calls]
    /\ runlog' = runlog \o res.calls
    /\ IF res.out = Ok
       THEN /\ pc' = next
            /\ locals' = newlocals
            /\ runs' = IF next = "done" THEN Append(runs, [ok |-> TRUE, start |-> started, remote |-> res.r])
                       ELSE runs
       ELSE /\ pc' = "aborted"
            /\ locals' = locals
            /\ runs' = Append(runs, [ok |-> FALSE, start |-> started, remote |-> res.r])
    /\ UNCHANGED <<run, started, ncalls, event, response, accept_header, accepted>>

StartRun ==
    /\ pc \in {"idle", "done", "aborted"}
    /\ run < MaxRuns
    /\ pc' = "create_gateway"
    /\ run' = run + 1
    /\ locals' = NoLocals
    /\ runlog' = <<>>
    /\ started' = remote
    /\ UNCHANGED <<remote, pre, last, runs, ncalls, event, response, accept_header, accepted>>

MainCreateGateway ==
    /\ pc = "create_gateway"
    /\ \E fail \in {"", "get_rest_apis", "create_rest_api"} :
         LET res == create_gateway(remote, GatewayName, fail)
         IN Advance("create_gateway", [name |-> GatewayName], fail, res, "root",
                    [locals EXCEPT !.gateway_id = res.ret])

MainRoot ==
    /\ pc = "root"
    /\ \E fail \in {"", "get_resources"} :
         LET res == resource_by_path(remote, locals.gateway_id, "/", fail)
         IN Advance("resource_by_path", [gateway_id |-> locals.gateway_id, path |-> "/"], fail,
                    res, "method_root", [locals EXCEPT !.root = res.ret])

MainMethodRoot ==
    /\ pc = "method_root"
    /\ \E fail \in {"", "get_method", "get_method#2", "put_method"} :
         LET res == create_method(remote, locals.gateway_id, locals.root.id, "GET", fail)
         IN Advance("create_method",
                    [gateway_id |-> locals.gateway_id, resource_id |-> locals.root.id,
                     method |-> "GET"], fail,
                    res, "build_lambda", locals)

MainBuildLambda ==
    /\ pc = "build_lambda"
    /\ \E fail \in {"", "create_role", "get_role", "attach_role_policy", "get_function",
                    "create_function", "update_function_configuration",
                    "update_function_code", "get_function#2"} :
         LET res == build_lambda(remote, fail)
         IN Advance("build_lambda", None, fail, res, "integration_root",
                    [locals EXCEPT !.lamb = res.ret])

MainIntegrationRoot ==
    /\ pc = "integration_root"
    /\ \E fail \in {"", "put_integration", "add_permission"} :
         LET res == create_integration(remote, locals.gateway_id, locals.root.id, "GET",
                                       locals.lamb, fail)
         IN Advance("create_integration",
                    [gateway_id |-> locals.gateway_id, resource_id |-> locals.root.id,
                     method |-> "GET", lamb |-> locals.lamb], fail,
                    res, "wild_child", locals)

\* A main that puts the integration of the wildcard child without ensuring its method.
MainWildChild_skip_method ==
    /\ pc = "wild_child"
    /\ \E fail \in {"", "create_resource", "get_resources"} :
         LET res == wild_child(remote, locals.gateway_id, locals.root.id, fail)
         IN Advance("wild_child",
                    [gateway_id |-> locals.gateway_id, parent_resource_id |-> locals.root.id], fail,
                    res, "integration_child", [locals EXCEPT !.child = res.ret])

MainWildChild ==
    /\ pc = "wild_child"
    /\ \E fail \in {"", "create_resource", "get_resources"} :
         LET res == wild_child(remote, locals.gateway_id, locals.root.id, fail)
         IN Advance("wild_child",
                    [gateway_id |-> locals.gateway_id, parent_resource_id |-> locals.root.id], fail,
                    res, "method_child", [locals EXCEPT !.child = res.ret])

MainMethodChild ==
    /\ pc = "method_child"
    /\ \E fail \in {"", "get_method", "get_method#2", "put_method"} :
         LET res == create_method(remote, locals.gateway_id, locals.child.id, "GET", fail)
         IN Advance("create_method",
                    [gateway_id |-> locals.gateway_id, resource_id |-> locals.child.id,
                     method |-> "GET"], fail,
                    res, "integration_child", locals)

MainIntegrationChild ==
    /\ pc = "integration_child"
    /\ \E fail \in {"", "put_integration", "add_permission"} :
         LET res == create_integration(remote, locals.gateway_id, locals.child.id, "GET",
                                       locals.lamb, fail)
         IN Advance("create_integration",
                    [gateway_id |-> locals.gateway_id, resource_id |-> locals.child.id,
                     method |-> "GET", lamb |-> locals.lamb], fail,
                    res, "create_deployment", locals)

MainCreateDeployment ==
    /\ pc = "create_deployment"
    /\ \E fail \in {"", "create_deployment"} :
         LET d == Inject(fail, "create_deployment", remote,
                         create_deployment(remote, locals.gateway_id, "prod"))
             a == [restApiId |-> locals.gateway_id, stageName |-> "prod"]
         IN Advance("create_deployment", a, fail,
                    Res(d.r, d.err, d.resp, <<Call("create_deployment", a)>>),
                    "update_stage", locals)

MainUpdateStage ==
    /\ pc = "update_stage"
    /\ \E fail \in {"", "update_stage"} :
         LET u == Inject(fail, "update_stage", remote,
                         update_stage(remote, locals.gateway_id, "prod", "true"))
             a == [restApiId |-> locals.gateway_id, stageName |-> "prod"]
         IN Advance("update_stage", a, fail,
                    Res(u.r, u.err, u.resp, <<Call("update_stage", a)>>),
                    "done", locals)

\* main(client), run from account r with no remote call made to fail: the
\* account it leaves, how it ends and the calls it issued.
main(r) ==
    LET g == create_gateway(r, GatewayName, "")
        root == resource_by_path(g.r, g.ret, "/", "")
        m1 == create_method(root.r, g.ret, root.ret.id, "GET", "")
        lamb == build_lambda(m1.r, "")
        i1 == create_integration(lamb.r, g.ret, root.ret.id, "GET", lamb.ret, "")
        child == wild_child(i1.r, g.ret, root.ret.id, "")
        m2 == create_method(child.r, g.ret, child.ret.id, "GET", "")
        i2 == create_integration(m2.r, g.ret, child.ret.id, "GET", lamb.ret, "")
        a == [restApiId |-> g.ret, stageName |-> "prod"]
        d == create_deployment(i2.r, g.ret, "prod")
        u == update_stage(d.r, g.ret, "prod", "true")
        c1 == g.calls
        c2 == c1 \o root.calls
        c3 == c2 \o m1.calls
        c4 == c3 \o lamb.calls
        c5 == c4 \o i1.calls
        c6 == c5 \o child.calls
        c7 == c6 \o m2.calls
        c8 == c7 \o i2.calls
        c9 == Append(c8, Call("create_deployment", a))
        c10 == Append(c9, Call("update_stage", a))
    IN IF g.out # Ok THEN Res(g.r, g.out, None, c1)
       ELSE IF root.out # Ok THEN Res(root.r, root.out, None, c2)
       ELSE IF m1.out # Ok THEN Res(m1.r, m1.out, None, c3)
       ELSE IF lamb.out # Ok THEN Res(lamb.r, lamb.out, None, c4)
       ELSE IF i1.out # Ok THEN Res(i1.r, i1.out, None, c5)
       ELSE IF child.out # Ok THEN Res(child.r, child.out, None, c6)
       ELSE IF m2.out # Ok THEN Res(m2.r, m2.out, None, c7)
       ELSE IF i2.out # Ok THEN Res(i2.r, i2.out, None, c8)
       ELSE IF d.err # Ok THEN Res(d.r, d.err, None, c9)
       ELSE Res(u.r, u.err, None, c10)

Next ==
    \/ StartRun
    \/ MainCreateGateway
    \/ MainRoot
    \/ MainMethodRoot
    \/ MainBuildLambda
    \/ MainIntegrationRoot
    \/ MainWildChild
    \/ MainMethodChild
    \/ MainIntegrationChild
    \/ MainCreateDeployment
    \/ MainUpdateStage

Spec == Init /\ [][Next]_vars

(***************************************************************************)
(* The functions of the scripts, called one at a time on any arguments     *)
(***************************************************************************)
\* An operation ran with result res.
Apply(op, args, fail, res) ==
    /\ pc = "idle"
    /\ ncalls < MaxCalls
    /\ ncalls' = ncalls + 1
    /\ pc' = "returned"
    /\ pre' = remote
    /\ remote' = res.r
    /\ last' = [op |-> op, args |-> args, fail |-> fail, out |-> res.out, ret |-> res.ret, calls |-> res.calls]
    /\ UNCHANGED <<locals, run, runlog, started, runs, event, response, accept_header, accepted>>

\* The caller drops the result: the next call sees the remote state alone.
OpReturn ==
    /\ pc = "returned"
    /\ pc' = "idle"
    /\ pre' = remote
    /\ last' = NoOp
    /\ UNCHANGED <<remote, locals, run, runlog, started, runs, ncalls, event, response, accept_header, accepted>>

\* Gateways passed as arguments: those named GatewayName.
ArgGateways(r) ==
    {r.apis[i].id : i \in {j \in 1..Len(r.apis) : r.apis[j].name = GatewayName}}

\* Resources passed as arguments: the root of the gateway and the wildcard resources.
ArgResources(r, g) ==
    {r.resources[i].id : i \in {j \in 1..Len(r.resources) :
        r.resources[j].api = g /\ r.resources[j].pathPart \in {"", ProxyPart}}}

OpCreateGateway ==
    \E name \in {GatewayName, "other", "new"}, fail \in {"", "get_rest_apis", "create_rest_api"} :
        Apply("create_gateway", [name |-> name], fail, create_gateway(remote, name, fail))

OpResourceByPath ==
    \E g \in ArgGateways(remote), path \in {"/", ProxyPath, "/nope"}, fail \in {"", "get_resources"} :
        Apply("resource_by_path", [gateway_id |-> g, path |-> path], fail,
              resource_by_path(remote, g, path, fail))

OpWildChild ==
    \E g \in ArgGateways(remote) : \E parent \in ArgResources(remote, g) :
        \E fail \in {"", "create_resource", "get_resources"} :
            Apply("wild_child", [gateway_id |-> g, parent_resource_id |-> parent], fail,
                  wild_child(remote, g, parent, fail))

OpCreateMethod ==
    \E g \in ArgGateways(remote) : \E res \in ArgResources(remote, g) :
        \E fail \in {"", "get_method", "get_method#2", "put_method"} :
            Apply("create_method", [gateway_id |-> g, resource_id |-> res, method |-> "GET"], fail,
                  create_method(remote, g, res, "GET", fail))

\* The descriptor passed is the one get_function answers, the function being
\* in any region and account.
OpCreateIntegration ==
    /\ FunctionsNamed(remote, LambdaName) # {}
    /\ \E g \in ArgGateways(remote) : \E res \in ArgResources(remote, g) :
         \E fail \in {"", "put_integration", "add_permission"} :
          \E region \in ArnRegions, account \in ArnAccounts :
            LET lamb == [get_function(remote, LambdaName).resp EXCEPT
                            !.Configuration.FunctionArn = LambdaArn(region, account, LambdaName)]
            IN Apply("create_integration",
                     [gateway_id |-> g, resource_id |-> res, method |-> "GET", lamb |-> lamb], fail,
                     create_integration(remote, g, res, "GET", lamb, fail))

OpLambdaArnParts ==
    \E region \in ArnRegions, account \in ArnAccounts, name \in ArnNames :
        LET arn == LambdaArn(region, account, name)
        IN Apply("lambda_arn_parts", [arn |-> arn], "", Res(remote, Ok, lambda_arn_parts(arn), <<>>))

OpLambdaRole ==
    \E fail \in {"", "create_role", "get_role", "attach_role_policy"} :
        Apply("lambda_role", [role_name |-> RoleName], fail, lambda_role(remote, RoleName, fail))

OpCreateLambda ==
    \E fail \in {"", "get_function", "create_function", "update_function_configuration",
                 "update_function_code", "get_function#2"} :
        Apply("create_lambda", [name |-> LambdaName, role_arn |-> RoleArn(RoleName)], fail,
              create_lambda(remote, LambdaName, RoleArn(RoleName), fail))

NextOps ==
    \/ OpCreateGateway
    \/ OpResourceByPath
    \/ OpWildChild
    \/ OpCreateMethod
    \/ OpCreateIntegration
    \/ OpLambdaArnParts
    \/ OpLambdaRole
    \/ OpCreateLambda
    \/ OpReturn

InitOps == Start(OpsAccounts)

SpecOps == InitOps /\ [][NextOps]_vars

(***************************************************************************)
(* wanwu_lambda.py                                                         *)
(*                                                                         *)
(* A Python str is the sequence of its characters; None, a str and a dict  *)
(* (the sequence of its <<key, value>> items) carry their type.            *)
(***************************************************************************)
PyNone == [type |-> "NoneType", v |-> <<>>]
PyDict(items) == [type |-> "dict", v |-> items]

\* json.dumps with ensure_ascii off: a non-ASCII character is written as it is.
JsonChar_raw(c) ==
    CASE c = "\"" -> <<"\\", "\"">>
      [] c = "\\" -> <<"\\", "\\">>
      [] c = "\n" -> <<"\\", "n">>
      [] OTHER -> <<c>>

\* The characters json.dumps writes for one character of a str (ensure_ascii).
JsonChar(c) ==
    CASE c = "\"" -> <<"\\", "\"">>
      [] c = "\\" -> <<"\\", "\\">>
      [] c = "\n" -> <<"\\", "n">>
      [] c = "é" -> <<"\\", "u", "0", "0", "e", "9">>
      [] OTHER -> <<c>>

RECURSIVE JsonChars(_)
JsonChars(s) == IF s = <<>> THEN <<>> ELSE JsonChar(Head(s)) \o JsonChars(Tail(s))

JsonString(s) == <<"\"">> \o JsonChars(s) \o <<"\"">>

RECURSIVE json_dumps(_)
RECURSIVE JsonItems(_)
\* The items of a dict, separated by ", ", each key ": " value.
JsonItems(items) ==
    IF items = <<>> THEN <<>>
    ELSE JsonString(items[1][1]) \o <<":", " ">> \o json_dumps(items[1][2])
         \o (IF Len(items) > 1 THEN <<",", " ">> ELSE <<>>)
         \o JsonItems(Tail(items))

\* json.dumps(value)
json_dumps(value) ==
    CASE value.type = "NoneType" -> <<"n", "u", "l", "l">>
      [] value.type = "str" -> JsonString(value.v)
      [] value.type = "dict" -> <<"{">> \o JsonItems(value.v) \o <<"}">>

\* A request_from_lambda_event that passes queryStringParameters on as it is.
request_from_lambda_event_keep_none(ev) ==
    [path |-> ev.path,
     method |-> ev.httpMethod,
     body |-> ev.body,
     query |-> ev.queryStringParameters,
     headers |-> ev.headers]

\* request_from_lambda_event(event)
request_from_lambda_event(ev) ==
    [path |-> ev.path,
     method |-> ev.httpMethod,
     body |-> ev.body,
     query |-> IF ev.queryStringParameters.type = "NoneType" THEN PyDict(<<>>)
               ELSE ev.queryStringParameters,
     headers |-> ev.headers]

\* resource_root(request)
resource_root(request) ==
    [status |-> 200,
     content_type |-> "application/json",
     headers |-> PyDict(<<>>),
     body |-> json_dumps(PyDict(<< <<<<"p", "a", "t", "h">>, request.path>>,
                                   <<<<"m", "e", "t", "h", "o", "d">>, request.method>>,
                                   <<<<"b", "o", "d", "y">>, request.body>>,
                                   <<<<"q", "u", "e", "r", "y">>, request.query>>,
                                   <<<<"h", "e", "a", "d", "e", "r", "s">>, request.headers>> >>))]

\* resource_not_found(request)
resource_not_found(request) == [resource_root(request) EXCEPT !.status = 404]

\* A route_request that matches the path by its prefix.
route_request_prefix(path) ==
    IF path.v # <<>> /\ path.v[1] = "/" THEN "resource_root" ELSE "resource_not_found"

\* route_request(path): the name of the resource function.
route_request(path) ==
    IF PyEq(path, PyStr(<<"/">>)) THEN "resource_root" ELSE "resource_not_found"

\* resource(request), for the function route_request named.
CallResource(resource, request) ==
    IF resource = "resource_root" THEN resource_root(request)
    ELSE resource_not_found(request)

\* response_to_handler_out(response)
response_to_handler_out(resp) ==
    [statusCode |-> resp.status,
     body |-> resp.body,
     headers |-> ("Content-Language" :> "en")
                 @@ ("Content-Length" :> Len(resp.body))
                 @@ ("Content-Type" :> resp.content_type \o "; charset=utf-8")]

\* lambda_handler(event, context)
lambda_handler(ev) ==
    LET request == request_from_lambda_event(ev)
        resource == route_request(request.path)
    IN response_to_handler_out(CallResource(resource, request))

\* Inbound events
Paths == {<<"/">>, <<"/", "n", "o", "p", "e">>, <<>>, <<"/", "/">>, <<"/", "é">>, <<"/", " ">>}
Bodies == {PyNone, PyStr(<<>>), PyStr(<<"h", "i">>), PyStr(<<"a", "\"", "\\", "é">>)}
Queries == {PyNone, PyDict(<<>>), PyDict(<< <<<<"q">>, PyStr(<<"1">>)>> >>)}
Headers == {PyDict(<<>>),
            PyDict(<< <<<<"A", "c", "c", "e", "p", "t">>, PyStr(<<"*", "/", "*">>)>> >>),
            PyDict(<< <<<<"X">>, PyStr(<<"é">>)>>, <<<<"Y">>, PyStr(<<"\n">>)>> >>)}

Events ==
    {[path |-> PyStr(p), httpMethod |-> PyStr(m), body |-> b,
      queryStringParameters |-> q, headers |-> h] :
        p \in Paths, m \in {<<"G", "E", "T">>, <<"P", "O", "S", "T">>},
        b \in Bodies, q \in Queries, h \in Headers}

NoResponse == [statusCode |-> 0, body |-> <<>>, headers |-> <<>>]

InitHandler ==
    /\ remote = Account(0, 0, FALSE, 0, "absent", "absent", NoFunction, FALSE)
    /\ pre = remote
    /\ last = NoOp
    /\ pc = "idle"
    /\ locals = NoLocals
    /\ run = 0
    /\ runlog = <<>>
    /\ started = remote
    /\ runs = <<>>
    /\ ncalls = 0
    /\ event \in Events
    /\ response = NoResponse
    /\ accept_header = <<>>
    /\ accepted = [out |-> <<>>, ret |-> None]

\* The gateway invokes the handler with the event.
Handle ==
    /\ response = NoResponse
    /\ response' = lambda_handler(event)
    /\ UNCHANGED <<remote, pre, last, pc, locals, run, runlog, started, runs, ncalls, event,
                 accept_header, accepted>>

NextHandler == Handle

SpecHandler == InitHandler /\ [][NextHandler]_vars

(***************************************************************************)
(* wanwu_lambda.py: the Accept header                                      *)
(*                                                                         *)
(* The header is the sequence of its characters. A quality is a number of  *)
(* thousandths (1.0 is 1000, the 0.99 of accept_types is 990).             *)
(***************************************************************************)
\* s.partition(sep): what precedes the first sep, the sep, what follows it.
Partition(s, sep) ==
    LET i == First(s, LAMBDA c: c = sep)
    IN IF i = 0 THEN <<s, <<>>, <<>>>>
       ELSE <<SubSeq(s, 1, i - 1), <<sep>>, SubSeq(s, i + 1, Len(s))>>

\* s.strip()
Strip(s) ==
    LET inked == {i \in 1..Len(s) : s[i] # " "}
    IN IF inked = {} THEN <<>>
       ELSE SubSeq(s, CHOOSE i \in inked : \A j \in inked : i <= j,
                      CHOOSE i \in inked : \A j \in inked : j <= i)

\* s.startswith(c)
StartsWith(s, c) == s # <<>> /\ s[1] = c

Digits == {"0", "1", "2", "3", "4", "5", "6", "7", "8", "9"}
Digit(c) == CHOOSE d \in 0..9 : ToString(d) = c

RECURSIVE Decimal(_)
\* The number a sequence of digits writes.
Decimal(s) == IF s = <<>> THEN 0 ELSE 10 * Decimal(SubSeq(s, 1, Len(s) - 1)) + Digit(s[Len(s)])

\* float(s), for the decimal literals of a quality value: digits with an
\* optional fraction of at most three digits; anything else is a ValueError.
Float(s) ==
    LET t == Strip(s)
        p == Partition(t, ".")
        frac == p[3] \o SubSeq(<<"0", "0", "0">>, 1, 3 - Len(p[3]))
    IN IF /\ \A i \in 1..Len(p[1]) : p[1][i] \in Digits
          /\ \A i \in 1..Len(p[3]) : p[3][i] \in Digits
          /\ Len(p[1]) + Len(p[3]) > 0
          /\ Len(p[3]) <= 3
       THEN [err |-> Ok, q |-> 1000 * Decimal(p[1]) + Decimal(frac)]
       ELSE [err |-> ValueError, q |-> 0]

\* accept_q(accept_part)
accept_q(accept_part) ==
    LET p1 == Partition(accept_part, ";")
        accept_params == Strip(p1[3])
        p2 == Partition(accept_params, "=")
        qvalue_etc == Strip(p2[3])
        q == Partition(qvalue_etc, ";")[1]
    IN IF ~StartsWith(accept_params, "q") THEN [err |-> Ok, q |-> 1000]
       ELSE Float(q)

\* parts.pop(i)
Pop(parts, i) == SubSeq(parts, 1, i - 1) \o SubSeq(parts, i + 1, Len(parts))

\* One step of list.sort(key=..., reverse=True): x goes behind every element
\* whose key is not smaller, so equal keys keep the order they came in.
Insert(sorted, x, key(_)) ==
    LET j == First(sorted, LAMBDA y: key(y) < key(x))
    IN IF j = 0 THEN Append(sorted, x)
       ELSE SubSeq(sorted, 1, j - 1) \o <<x>> \o SubSeq(sorted, j, Len(sorted))

RECURSIVE SortReverse(_, _, _)
\* parts.sort(key=qs.get, reverse=True)
SortReverse(parts, qs, acc) ==
    IF parts = <<>> THEN acc
    ELSE SortReverse(Tail(parts), qs, Insert(acc, Head(parts), LAMBDA x: qs[x]))

RECURSIVE AcceptLoop(_, _, _, _)
\* The while loop of accept_types: a part of quality above 0.99 is popped and
\* yielded, any other part is kept with its quality; a ValueError of accept_q
\* ends the generator after what it has yielded.
AcceptLoop(parts, i, qs, out) ==
    IF i > Len(parts) THEN [parts |-> parts, qs |-> qs, out |-> out, ret |-> Ok]
    ELSE LET q == accept_q(parts[i])
         IN IF q.err # Ok THEN [parts |-> parts, qs |-> qs, out |-> out, ret |-> q.err]
            ELSE IF q.q > 990 THEN AcceptLoop(Pop(parts, i), i, qs, Append(out, parts[i]))
            ELSE AcceptLoop(parts, i + 1, (parts[i] :> q.q) @@ qs, out)

\* An accept_types that yields nothing early: every part is kept and sorted.
accept_types_sort_all(header) ==
    LET parts == Split(header, ",")
        bad == First(parts, LAMBDA x: accept_q(x).err # Ok)
        qs == [x \in {parts[i] : i \in 1..Len(parts)} |-> accept_q(x).q]
    IN IF bad # 0 THEN [out |-> <<>>, ret |-> ValueError]
       ELSE [out |-> SortReverse(parts, qs, <<>>), ret |-> Ok]

\* accept_types(accept_header): what the generator yields, in order, and how it ends.
accept_types(header) ==
    LET loop == AcceptLoop(Split(header, ","), 1, <<>>, <<>>)
    IN IF loop.ret # Ok THEN [out |-> loop.out, ret |-> loop.ret]
       ELSE [out |-> loop.out \o SortReverse(loop.parts, loop.qs, <<>>), ret |-> Ok]

\* The Accept header of the specification's example.
ExampleHeader ==
    <<"t", "e", "x", "t", "/", "h", "t", "m", "l",
      ";", "q", "=", "1",
      ",", " ", "t", "e", "x", "t", "/", "p", "l", "a", "i", "n",
      ";", "q", "=", "0", ".", "5",
      ",", " ", "*", "/", "*",
      ";", "q", "=", "0", ".", "1">>

\* Parts of an Accept header: without parameters, with a quality of 1, above
\* 0.99, of 0.99, below it (two of them equal), with a parameter before or
\* after the quality, with white space, and with a quality that is no number.
AcceptParts ==
    {<<"a">>,
     <<"b", ";", "q", "=", "1">>,
     <<" ", "c", ";", "q", "=", "0", ".", "5">>,
     <<"d", ";", "q", "=", "0", ".", "1">>,
     <<"e", ";", " ", "q", "=", "0", ".", "5", ";", "x", "=", "1">>,
     <<"f", ";", "q", "=", "0", ".", "9", "9", "5">>,
     <<"g", ";", "q", "=", "0", ".", "9", "9">>,
     <<"h", ";", "l", "e", "v", "e", "l", "=", "1", ";", "q", "=", "0", ".", "2">>,
     <<"i", ";", "q", "=", "x">>}

RECURSIVE HeadersOf(_)
\* The headers of n parts, joined by commas.
HeadersOf(n) ==
    IF n = 1 THEN AcceptParts
    ELSE {h \o <<",">> \o p : h \in HeadersOf(n - 1), p \in AcceptParts}

AcceptHeaders == {ExampleHeader, <<>>} \cup UNION {HeadersOf(n) : n \in 1..MaxParts}

NotCalled == [out |-> <<>>, ret |-> None]

InitAccept ==
    /\ remote = Account(0, 0, FALSE, 0, "absent", "absent", NoFunction, FALSE)
    /\ pre = remote
    /\ last = NoOp
    /\ pc = "idle"
    /\ locals = NoLocals
    /\ run = 0
    /\ runlog = <<>>
    /\ started = remote
    /\ runs = <<>>
    /\ ncalls = 0
    /\ event = NoEvent
    /\ response = NoResponse
    /\ accept_header \in AcceptHeaders
    /\ accepted = NotCalled

\* The generator is run to its end.
AcceptTypes ==
    /\ accepted = NotCalled
    /\ accepted' = accept_types(accept_header)
    /\ UNCHANGED <<remote, pre, last, pc, locals, run, runlog, started, runs, ncalls, event,
                   response, accept_header>>

NextAccept == AcceptTypes

SpecAccept == InitAccept /\ [][NextAccept]_vars

(***************************************************************************)
(* Properties                                                              *)
(***************************************************************************)
\* How many calls of `op` an operation issued.
Issued(calls, op) == Cardinality({i \in 1..Len(calls) : calls[i].op = op})

FirstPage(s) == SubSeq(s, 1, Min(Len(s), limit))

Named(r, name) == {i \in 1..Len(r.apis) : r.apis[i].name = name}

\* The last operation was `op`, and no remote call of it was made to fail.
Ran(op) == last.op = op /\ last.fail = ""

\* C3: create_gateway(name) that returns, returns the id of the first gateway of
\* the first page whose name is exactly `name`, having issued no create_rest_api
\* and changed nothing; it issues a create only when the first page holds no
\* gateway of that name, then exactly one, and returns the created id. No
\* invocation issues more than one create, so an account with at most one
\* gateway of the name keeps at most one, and has exactly one after a return.
C3_CreateGatewayOnce ==
    last.op = "create_gateway" =>
        LET name == last.args.name
            page == FirstPage(pre.apis)
            hits == {i \in 1..Len(page) : page[i].name = name}
            creates == Issued(last.calls, "create_rest_api")
        IN /\ creates <= 1
           /\ creates = 1 => hits = {}
           /\ (last.out = Ok /\ hits # {}) =>
                /\ creates = 0
                /\ remote = pre
                /\ \E i \in hits : last.ret = page[i].id /\ \A j \in hits : i <= j
           /\ (last.out = Ok /\ hits = {}) =>
                /\ creates = 1
                /\ Len(remote.apis) = Len(pre.apis) + 1
                /\ remote.apis[Len(remote.apis)] = [id |-> last.ret, name |-> name]
                /\ \A i \in 1..Len(pre.apis) : pre.apis[i].id # last.ret
           /\ last.out # Ok => remote.apis = pre.apis
           /\ Cardinality(Named(pre, name)) <= 1 =>
                /\ Cardinality(Named(remote, name)) <= 1
                /\ last.out = Ok => Cardinality(Named(remote, name)) = 1

\* A later invocation returns, without a create, the gateway an earlier one created.
C3_Witness ==
    /\ Ran("create_gateway")
    /\ last.out = Ok
    /\ Issued(last.calls, "create_rest_api") = 0
    /\ last.ret = "g1"
    /\ Cardinality(Named(remote, last.args.name)) = 1

\* C4: when the listing holds as many items as the page size asked for,
\* create_gateway and resource_by_path raise OverflowError: nothing is created
\* or returned and the account is unchanged, whether or not an entry of the
\* requested name or path is among the items.
C4_OverflowIsFatal ==
    /\ (Ran("create_gateway") /\ Len(FirstPage(pre.apis)) >= limit) =>
            /\ last.out = OverflowError
            /\ last.ret = None
            /\ remote = pre
            /\ CallNames(last.calls) = <<"get_rest_apis">>
    /\ (Ran("resource_by_path")
        /\ Len(FirstPage(ApiResources(pre, last.args.gateway_id))) >= limit) =>
            /\ last.out = OverflowError
            /\ last.ret = None
            /\ remote = pre
            /\ CallNames(last.calls) = <<"get_resources">>
    /\ last.op \in {"create_gateway", "resource_by_path"} =>
            (last.out = OverflowError =>
                Len(IF last.op = "create_gateway" THEN pre.apis
                    ELSE ApiResources(pre, last.args.gateway_id)) >= limit)

\* resource_by_path overflows although the path asked for is among the items.
C4_Witness ==
    /\ Ran("resource_by_path")
    /\ last.out = OverflowError
    /\ LET page == FirstPage(ApiResources(pre, last.args.gateway_id))
       IN Len(page) = limit /\ \E i \in 1..Len(page) : page[i].path = last.args.path

\* C9: resource_by_path(gateway, path) that returns, returns the first entry of
\* the first page of the gateway's resources whose path is exactly `path`; with
\* a listing below the page size and no such entry it raises RuntimeError (not
\* found); with a listing at the page size it raises OverflowError. Whatever
\* the outcome it issues the one get_resources call, no create or update call,
\* and leaves the account unchanged.
C9_ResourceByPathLooksUpOnly ==
    last.op = "resource_by_path" =>
        LET page == FirstPage(ApiResources(pre, last.args.gateway_id))
            hits == {i \in 1..Len(page) : page[i].path = last.args.path}
        IN /\ remote = pre
           /\ CallNames(last.calls) = <<"get_resources">>
           /\ last.out = Ok =>
                \E i \in hits : last.ret = page[i] /\ \A j \in hits : i <= j
           /\ (last.fail = "" /\ Len(page) < limit) =>
                /\ hits # {} => last.out = Ok
                /\ hits = {} => last.out = RuntimeError
           /\ last.out = RuntimeError => hits = {} /\ last.ret = None

\* A path that no resource has: not found, and nothing changed.
C9_Witness ==
    /\ Ran("resource_by_path")
    /\ last.out = RuntimeError
    /\ last.args.path = "/nope"
    /\ Len(ApiResources(pre, last.args.gateway_id)) > 1

\* The resources of gateway g whose parent is `parent` and whose last segment is the wildcard.
WildChildren(r, g, parent) ==
    {i \in 1..Len(r.resources) :
        /\ r.resources[i].api = g
        /\ r.resources[i].parentId = parent
        /\ r.resources[i].pathPart = ProxyPart}

IsRoot(r, g, id) ==
    \E i \in 1..Len(r.resources) :
        r.resources[i].api = g /\ r.resources[i].id = id /\ r.resources[i].path = "/"

\* C5: wild_child issues one create_resource for '{proxy+}' under the parent. On
\* a conflict (the parent already has that child) it creates nothing and yields
\* what the lookup of path '/{proxy+}' yields: under the root, with a listing
\* below the page size, that is the existing child, returned without an error.
\* Without a conflict the created resource is returned. Any other error of the
\* create leaves wild_child as it is, with no lookup.
C5_WildChildToleratesConflict ==
    last.op = "wild_child" =>
        LET g == last.args.gateway_id
            parent == last.args.parent_resource_id
            page == FirstPage(ApiResources(pre, g))
            conflict == WildChildren(pre, g, parent) # {}
        IN /\ Issued(last.calls, "create_resource") = 1
           /\ last.calls[1].op = "create_resource"
           /\ last.calls[1].args = [restApiId |-> g, parentId |-> parent, pathPart |-> ProxyPart]
           /\ (conflict /\ last.fail # "create_resource") =>
                /\ remote = pre
                /\ CallNames(last.calls) = <<"create_resource", "get_resources">>
                /\ last.out = Ok =>
                     \E i \in 1..Len(page) : last.ret = page[i] /\ page[i].path = ProxyPath
                /\ (last.fail = "" /\ IsRoot(pre, g, parent) /\ Len(page) < limit) =>
                     /\ last.out = Ok
                     /\ last.ret.parentId = parent
                     /\ last.ret.pathPart = ProxyPart
           /\ (~conflict /\ last.fail # "create_resource") =>
                /\ last.out = Ok
                /\ CallNames(last.calls) = <<"create_resource">>
                /\ remote = [pre EXCEPT !.resources = Append(@, last.ret)]
                /\ last.ret.parentId = parent /\ last.ret.pathPart = ProxyPart
           /\ last.fail = "create_resource" =>
                /\ last.out = Fatal("create_resource")
                /\ CallNames(last.calls) = <<"create_resource">>
                /\ remote = pre
           /\ Cardinality(WildChildren(pre, g, parent)) <= 1 =>
                Cardinality(WildChildren(remote, g, parent)) <= 1

\* The root has its wildcard child already: the conflict is answered by the lookup.
C5_Witness ==
    /\ Ran("wild_child")
    /\ WildChildren(pre, last.args.gateway_id, last.args.parent_resource_id) # {}
    /\ last.out = Ok
    /\ last.ret.parentId = last.args.parent_resource_id
    /\ Len(last.calls) = 2
    /\ remote = pre

\* C6: create_method on a (gateway, resource, verb) that has the method returns
\* it as it is, with no put_method and nothing changed; when the lookup reports
\* not found it issues exactly one put_method, with authorization type NONE;
\* any other error of the lookup leaves create_method as it is, with no
\* put_method.
C6_CreateMethodIdempotent ==
    last.op = "create_method" =>
        LET a == last.args
            had == MethodsAt(pre, a.gateway_id, a.resource_id, a.method)
            puts == {i \in 1..Len(last.calls) : last.calls[i].op = "put_method"}
        IN /\ had # {} =>
                /\ puts = {}
                /\ remote = pre
                /\ last.fail \notin {"get_method", "get_method#2"} =>
                     last.out = Ok /\ last.ret \in had
           /\ (had = {} /\ last.fail # "get_method") =>
                /\ Cardinality(puts) = 1
                /\ \A i \in puts : last.calls[i].args =
                        [restApiId |-> a.gateway_id, resourceId |-> a.resource_id,
                         httpMethod |-> a.method, authorizationType |-> "NONE"]
                /\ last.fail = "" =>
                     /\ last.out = Ok
                     /\ last.ret.auth = "NONE"
                     /\ remote = [pre EXCEPT !.methods = @ \cup {last.ret}]
                /\ last.fail = "put_method" => last.out = Fatal("put_method") /\ remote = pre
           /\ last.fail = "get_method" =>
                /\ last.out = Fatal("get_method")
                /\ puts = {}
                /\ remote = pre

\* A method that requires authorization is returned and kept as it is.
C6_Witness ==
    /\ Ran("create_method")
    /\ last.out = Ok
    /\ last.ret.auth = "AWS_IAM"
    /\ Issued(last.calls, "put_method") = 0
    /\ remote = pre

Statements(r, fn, sid) == {st \in r.policy : st.FunctionName = fn /\ st.StatementId = sid}

\* C7: create_integration issues put_integration first on every invocation; once
\* that succeeded it issues one add_permission, whose statement id is
\* '<gateway id>-<resource id>-<method>-<function name>'. When the statement is
\* granted already the conflict is swallowed: create_integration returns the
\* integration and the policy is unchanged, so the policy holds exactly one
\* statement of that id after every return. Any other error of add_permission
\* leaves create_integration as it is.
C7_IntegrationGrantsOnce ==
    last.op = "create_integration" =>
        LET a == last.args
            fn == LambdaName
            sid == a.gateway_id \o "-" \o a.resource_id \o "-" \o a.method \o "-" \o fn
            put == /\ last.fail # "put_integration"
                   /\ MethodsAt(pre, a.gateway_id, a.resource_id, a.method) # {}
            granted == Statements(pre, fn, sid) # {}
        IN /\ last.calls[1].op = "put_integration"
           /\ Issued(last.calls, "put_integration") = 1
           /\ ~put => Issued(last.calls, "add_permission") = 0 /\ last.out # Ok /\ remote = pre
           /\ put =>
                /\ CallNames(last.calls) = <<"put_integration", "add_permission">>
                /\ last.calls[2].args.StatementId = sid
                /\ last.calls[2].args.FunctionName = fn
                /\ last.calls[1].args \in remote.integrations
           /\ (put /\ last.fail = "") =>
                /\ last.out = Ok
                /\ last.ret = last.calls[1].args
                /\ granted => remote.policy = pre.policy
           /\ (put /\ last.fail = "add_permission") =>
                /\ last.out = Fatal("add_permission")
                /\ remote.policy = pre.policy
           /\ last.out = Ok => Cardinality(Statements(remote, fn, sid)) = 1
           /\ Cardinality(Statements(pre, fn, sid)) <= 1 =>
                Cardinality(Statements(remote, fn, sid)) <= 1

\* The statement was granted before: the conflict is swallowed and the integration returned.
C7_Witness ==
    /\ Ran("create_integration")
    /\ last.out = Ok
    /\ Statements(pre, LambdaName, last.calls[2].args.StatementId) # {}
    /\ remote.policy = pre.policy
    /\ last.ret \in remote.integrations

LogPolicy(name) == [RoleName |-> name, PolicyArn |-> PolicyArn]

\* C8: lambda_role on a role that exists fetches it with get_role, returns it
\* and still issues attach_role_policy for the log-execution policy; on a role
\* that does not exist it returns the created role and attaches the policy
\* too; any other error of create_role leaves lambda_role as it is, with no
\* attach_role_policy.
C8_LambdaRoleIdempotent ==
    last.op = "lambda_role" =>
        LET name == last.args.role_name
            had == RolesNamed(pre, name)
            attach == Call("attach_role_policy", LogPolicy(name))
        IN /\ (had # {} /\ last.fail \notin {"create_role", "get_role"}) =>
                /\ CallNames(last.calls) = <<"create_role", "get_role", "attach_role_policy">>
                /\ last.calls[3] = attach
                /\ remote.roles = pre.roles
                /\ last.fail = "" =>
                     /\ last.out = Ok
                     /\ last.ret \in had
                     /\ LogPolicy(name) \in remote.attached
           /\ (had = {} /\ last.fail # "create_role") =>
                /\ CallNames(last.calls) = <<"create_role", "attach_role_policy">>
                /\ last.calls[2] = attach
                /\ last.fail = "" =>
                     /\ last.out = Ok
                     /\ last.ret.RoleName = name
                     /\ remote.roles = pre.roles \cup {last.ret}
                     /\ LogPolicy(name) \in remote.attached
           /\ last.fail = "create_role" =>
                /\ last.out = Fatal("create_role")
                /\ CallNames(last.calls) = <<"create_role">>
                /\ remote = pre
           /\ Cardinality(RolesNamed(remote, name)) <= 1

\* The role exists without the policy: it is fetched, returned, and the policy attached.
C8_Witness ==
    /\ Ran("lambda_role")
    /\ RolesNamed(pre, last.args.role_name) # {}
    /\ LogPolicy(last.args.role_name) \notin pre.attached
    /\ last.out = Ok
    /\ last.ret \in pre.roles
    /\ LogPolicy(last.args.role_name) \in remote.attached

\* C2: create_lambda on a function that exists issues no update_function_code
\* when the digest the remote records equals the digest of the local package,
\* and exactly one, carrying the bytes of the local package, when they differ.
C2_DigestDecidesUpdate ==
    (Ran("create_lambda") /\ FunctionsNamed(pre, last.args.name) # {}) =>
        LET f == CHOOSE x \in FunctionsNamed(pre, last.args.name) : TRUE
            package == create_deploy_package(last.args.name \o ".py")
            updates == {i \in 1..Len(last.calls) : last.calls[i].op = "update_function_code"}
        IN IF B64(Sha256(f.Code)) = B64(Sha256(package))
           THEN updates = {}
           ELSE /\ Cardinality(updates) = 1
                /\ \A i \in updates : last.calls[i].args.ZipFile = package

\* wild_child, on a conflict, never fails and returns the resource at
\* '/{proxy+}', whatever the parent and the size of the listing.
C5_ConflictNeverFails ==
    (Ran("wild_child")
     /\ WildChildren(pre, last.args.gateway_id, last.args.parent_resource_id) # {}) =>
        /\ last.out = Ok
        /\ last.ret.path = ProxyPath
        /\ remote = pre

\* The account without its deployments and without the deployment each stage serves.
Provisioned(r) ==
    [r EXCEPT !.deployments = <<>>,
              !.stages = {[st EXCEPT !.deploymentId = ""] : st \in @}]

Max(a, b) == IF a > b THEN a ELSE b

\* No gateway, resource, method, integration, permission statement, role or
\* function of account r is a duplicate that a run from account `start` made.
NoDuplicates(r, start) ==
    /\ Cardinality(Named(r, GatewayName)) = Max(1, Cardinality(Named(start, GatewayName)))
    /\ Cardinality({<<r.resources[i].api, r.resources[i].path>> : i \in 1..Len(r.resources)})
         = Len(r.resources)
    /\ Cardinality({<<r.apis[i].id>> : i \in 1..Len(r.apis)}) = Len(r.apis)
    /\ \A m1, m2 \in r.methods :
         (m1.api = m2.api /\ m1.res = m2.res /\ m1.verb = m2.verb) => m1 = m2
    /\ \A i1, i2 \in r.integrations :
         (i1.restApiId = i2.restApiId /\ i1.resourceId = i2.resourceId
          /\ i1.httpMethod = i2.httpMethod) => i1 = i2
    /\ \A s1, s2 \in r.policy :
         (s1.FunctionName = s2.FunctionName /\ s1.StatementId = s2.StatementId) => s1 = s2
    /\ Cardinality(RolesNamed(r, RoleName)) = 1
    /\ Cardinality(FunctionsNamed(r, LambdaName)) = 1

\* C1, as the code has it: two runs of main in a row, neither aborted, leave no
\* duplicate gateway, resource, method, integration, permission statement, role
\* or function, and the second leaves every gateway, resource, method,
\* integration, permission statement, role, attached policy, function and
\* stage setting as the first left it; each run adds one deployment, which the
\* 'prod' stage then serves.
C1_RerunConverges ==
    \A i \in 1..Len(runs) :
        /\ runs[i].ok => NoDuplicates(runs[i].remote, runs[i].start)
        /\ (i > 1 /\ runs[i - 1].ok /\ runs[i].ok) =>
             /\ runs[i].start = runs[i - 1].remote
             /\ Provisioned(runs[i].remote) = Provisioned(runs[i - 1].remote)
             /\ Len(runs[i].remote.deployments) = Len(runs[i - 1].remote.deployments) + 1

\* Two complete runs from an account that had nothing: the first created everything.
C1_Witness ==
    /\ Len(runs) = 2
    /\ runs[1].ok /\ runs[2].ok
    /\ runs[1].start.apis = <<>>
    /\ runs[1].start.functions = {}
    /\ Cardinality(Named(runs[2].remote, GatewayName)) = 1
    /\ Len(runs[2].remote.resources) = 2

\* C1, as claimed: the account after the second run equals the account after the first.
C1_SecondRunChangesNothing ==
    \A i \in 2..Len(runs) :
        (runs[i - 1].ok /\ runs[i].ok) => runs[i].remote = runs[i - 1].remote

\* C10: the handler answers 200 when the path of the event is exactly '/' and
\* 404 for every other path, and the body and the headers do not depend on the
\* route: the answer to any path is the answer of the root resource to the same
\* request with the status alone replaced.
C10_StatusByExactPath ==
    response # NoResponse =>
        LET root == response_to_handler_out(resource_root(request_from_lambda_event(event)))
        IN /\ response.statusCode = (IF event.path.v = <<"/">> THEN 200 ELSE 404)
           /\ response.body = root.body
           /\ response.headers = root.headers
           /\ root.statusCode = 200

\* A path that only starts with '/': not found, with the body of the root resource.
C10_Witness ==
    /\ response # NoResponse
    /\ event.path.v = <<"/", "n", "o", "p", "e">>
    /\ response.statusCode = 404
    /\ Len(response.body) > 0
    /\ response.headers["Content-Length"] = Len(response.body)

(***************************************************************************)
(* The body on the wire, and what a client decodes from it                 *)
(***************************************************************************)
\* The bytes of one character in UTF-8.
Utf8Bytes(c) == IF c = "é" THEN 2 ELSE 1

\* The byte length of a str, encoded in UTF-8: the number of its (character, byte) pairs.
ByteLen(s) ==
    Cardinality({ib \in (1..Len(s)) \X (1..2) : ib[2] <= Utf8Bytes(s[ib[1]])})

\* The character a \uXXXX escape stands for.
UnicodeChar(hex) == IF hex = <<"0", "0", "e", "9">> THEN "é" ELSE "?"

RECURSIVE Unescape(_)
\* The characters that the inside of a JSON string stands for.
Unescape(s) ==
    IF s = <<>> THEN <<>>
    ELSE IF Head(s) # "\\" THEN <<Head(s)>> \o Unescape(Tail(s))
    ELSE IF s[2] = "u" THEN <<UnicodeChar(SubSeq(s, 3, 6))>> \o Unescape(SubSeq(s, 7, Len(s)))
    ELSE <<IF s[2] = "n" THEN "\n" ELSE s[2]>> \o Unescape(SubSeq(s, 3, Len(s)))

\* The number of backslashes that immediately precede position i of s.
Backslashes(s, i) ==
    LET others == {j \in 1..(i - 1) : s[j] # "\\"}
        j0 == IF others = {} THEN 0 ELSE CHOOSE j \in others : \A k \in others : k <= j
    IN i - 1 - j0

\* The characters of a JSON string up to its closing quote (the first quote
\* that no backslash escapes), and what follows it.
ParseChars(s) ==
    LET quotes == {i \in 1..Len(s) : s[i] = "\"" /\ Backslashes(s, i) % 2 = 0}
        close == CHOOSE i \in quotes : \A k \in quotes : i <= k
    IN [v |-> Unescape(SubSeq(s, 1, close - 1)), rest |-> SubSeq(s, close + 1, Len(s))]

RECURSIVE ParseValue(_)
RECURSIVE ParseItems(_, _)
\* The items of a JSON object up to its closing brace, and what follows it.
ParseItems(s, acc) ==
    IF Head(s) = "}" THEN [v |-> PyDict(acc), rest |-> Tail(s)]
    ELSE LET s1 == IF Head(s) = "," THEN SubSeq(s, 3, Len(s)) ELSE s
             k == ParseChars(Tail(s1))
             v == ParseValue(SubSeq(k.rest, 3, Len(k.rest)))
         IN ParseItems(v.rest, Append(acc, <<k.v, v.v>>))

\* One JSON value (null, a string or an object), and what follows it.
ParseValue(s) ==
    IF Head(s) = "n" THEN [v |-> PyNone, rest |-> SubSeq(s, 5, Len(s))]
    ELSE IF Head(s) = "\""
    THEN LET p == ParseChars(Tail(s)) IN [v |-> PyStr(p.v), rest |-> p.rest]
    ELSE ParseItems(Tail(s), <<>>)

\* The value a JSON text decodes to; None when text follows the value.
json_loads(s) == LET p == ParseValue(s) IN IF p.rest = <<>> THEN p.v ELSE None

\* C11: the headers of the handler's output are exactly Content-Language 'en',
\* Content-Type 'application/json; charset=utf-8' and Content-Length, for both
\* routes, and Content-Length is the number of bytes of the body encoded in
\* UTF-8.
C11_HeadersAndByteLength ==
    response # NoResponse =>
        /\ DOMAIN response.headers = {"Content-Language", "Content-Length", "Content-Type"}
        /\ response.headers["Content-Language"] = "en"
        /\ response.headers["Content-Type"] = "application/json; charset=utf-8"
        /\ response.headers["Content-Length"] = ByteLen(response.body)

\* An event with a non-ASCII character in its body and its headers, on the
\* route that is not found: the body on the wire is ASCII and is counted in bytes.
C11_Witness ==
    /\ response # NoResponse
    /\ response.statusCode = 404
    /\ event.body = PyStr(<<"a", "\"", "\\", "é">>)
    /\ \E i \in 1..Len(event.headers.v) : event.headers.v[i][2] = PyStr(<<"é">>)
    /\ \A i \in 1..Len(response.body) : response.body[i] # "é"
    /\ response.headers["Content-Length"] = ByteLen(response.body)
    /\ ByteLen(response.body) > ByteLen(event.body.v) + 60

\* C12: the body of the handler's output decodes, as JSON, to a mapping with
\* exactly the fields path, method, body, query and headers, in that order,
\* equal to the event's path, httpMethod, body, queryStringParameters and
\* headers; query is the empty mapping when queryStringParameters is None.
C12_BodyEchoesRequest ==
    response # NoResponse =>
        json_loads(response.body) =
            PyDict(<< <<<<"p", "a", "t", "h">>, event.path>>,
                      <<<<"m", "e", "t", "h", "o", "d">>, event.httpMethod>>,
                      <<<<"b", "o", "d", "y">>, event.body>>,
                      <<<<"q", "u", "e", "r", "y">>,
                        IF event.queryStringParameters = PyNone THEN PyDict(<<>>)
                        ELSE event.queryStringParameters>>,
                      <<<<"h", "e", "a", "d", "e", "r", "s">>, event.headers>> >>)

\* No query string, a body with characters that are escaped, two headers.
C12_Witness ==
    /\ response # NoResponse
    /\ event.queryStringParameters = PyNone
    /\ event.body = PyStr(<<"a", "\"", "\\", "é">>)
    /\ Len(event.headers.v) = 2
    /\ json_loads(response.body).type = "dict"
    /\ json_loads(response.body).v[4] = << <<"q", "u", "e", "r", "y">>, PyDict(<<>>)>>
    /\ json_loads(response.body).v[3][2] = event.body

\* The quality accept_q gives a part, in thousandths.
Quality(part) == accept_q(part).q

\* How many times x occurs in s.
Count(s, x) == Cardinality({i \in 1..Len(s) : s[i] = x})

\* C13, as claimed: for the header "text/html;q=1, text/plain;q=0.5, */*;q=0.1"
\* accept_types yields the media types "text/html", "text/plain", "*/*".
C13_ExampleYieldsMediaTypes ==
    (accepted # NotCalled /\ accept_header = ExampleHeader) =>
        accepted.out = <<<<"t", "e", "x", "t", "/", "h", "t", "m", "l">>,
                         <<"t", "e", "x", "t", "/", "p", "l", "a", "i", "n">>,
                         <<"*", "/", "*">>>>

InvocationUri(region, account, name) ==
    "arn:aws:apigateway:" \o region \o ":lambda:path/2015-03-31/functions/arn:aws:lambda:"
    \o region \o ":" \o account \o ":function:" \o name \o "/invocations"

\* C14: for every ARN arn:aws:lambda:<region>:<account>:function:<name>,
\* lambda_arn_parts yields <region> as region, <account> as account_id and
\* <name> as function_name (us-east-1, 541056992659 and wanwu_lambda for the
\* ARN of the example), and the uri create_integration passes to
\* put_integration is the proxy-invocation uri of these three values.
C14_ArnPartsAndUri ==
    \A region \in ArnRegions, account \in ArnAccounts, name \in ArnNames :
        /\ (last.op = "lambda_arn_parts" /\ last.args.arn = LambdaArn(region, account, name)) =>
             /\ last.ret["region"] = region
             /\ last.ret["account_id"] = account
             /\ last.ret["function_name"] = name
             /\ DOMAIN last.ret = {ArnLabels[i] : i \in 1..7}
        /\ (last.op = "create_integration"
            /\ last.args.lamb.Configuration.FunctionArn = LambdaArn(region, account, name)) =>
             /\ last.calls[1].op = "put_integration"
             /\ last.calls[1].args.uri = InvocationUri(region, account, name)
             /\ last.out = Ok => last.ret.uri = InvocationUri(region, account, name)

\* The ARN of the example is taken apart, and an integration is put for a
\* function of another region and account.
C14_Witness ==
    /\ last.op = "lambda_arn_parts"
    /\ last.args.arn = <<"arn", ":", "aws", ":", "lambda", ":", "us-east-1", ":",
                         "541056992659", ":", "function", ":", "wanwu_lambda">>
    /\ last.ret["region"] = "us-east-1"
    /\ last.ret["account_id"] = "541056992659"
    /\ last.ret["function_name"] = "wanwu_lambda"
    /\ ncalls = 2
    /\ \E i \in pre.integrations :
         i.uri = "arn:aws:apigateway:eu-west-1:lambda:path/2015-03-31/functions/"
                 \o "arn:aws:lambda:eu-west-1:000000000001:function:wanwu_lambda/invocations"

\* C16: create_lambda issues create_function, with the local package, the role
\* and timeout 5, exactly when the lookup reported not found, and
\* update_function_configuration, with timeout 5, exactly when the function
\* existed with another timeout, whether or not the remote digest is that of
\* the local package and before any update of the code. After a return the
\* function exists with timeout 5, and the descriptor returned is the remote's
\* configuration of it (timeout and code digest) as it is at the return.
C16_TimeoutReconciled ==
    last.op = "create_lambda" =>
        LET name == last.args.name
            had == FunctionsNamed(pre, name)
            looked == last.fail # "get_function"
            package == create_deploy_package(name \o ".py")
            creates == {i \in 1..Len(last.calls) : last.calls[i].op = "create_function"}
            confs == {i \in 1..Len(last.calls) :
                        last.calls[i].op = "update_function_configuration"}
            codes == {i \in 1..Len(last.calls) : last.calls[i].op = "update_function_code"}
        IN /\ last.calls[1].op = "get_function"
           /\ Cardinality(creates) = (IF looked /\ had = {} THEN 1 ELSE 0)
           /\ \A i \in creates :
                /\ last.calls[i].args.Code.ZipFile = package
                /\ last.calls[i].args.Role = last.args.role_arn
                /\ last.calls[i].args.Timeout = Timeout
           /\ Cardinality(confs) =
                (IF looked /\ \E f \in had : f.Timeout # Timeout THEN 1 ELSE 0)
           /\ \A i \in confs :
                /\ last.calls[i].args = [FunctionName |-> name, Timeout |-> Timeout]
                /\ \A j \in codes : i < j
           /\ last.out = Ok =>
                /\ Cardinality(FunctionsNamed(remote, name)) = 1
                /\ \A f \in FunctionsNamed(remote, name) :
                     /\ f.Timeout = Timeout
                     /\ last.ret.Configuration = Configuration(f)
                     /\ last.ret.Configuration.Timeout = Timeout
                     /\ last.ret.Configuration.CodeSha256 = PyStr(B64(Sha256(f.Code)))

\* The function exists with timeout 3 and the code of the local package: the
\* timeout is set to 5 although the digests are equal.
C16_Witness ==
    /\ Ran("create_lambda")
    /\ last.out = Ok
    /\ \E f \in FunctionsNamed(pre, last.args.name) :
         f.Timeout = 3 /\ f.Code = create_deploy_package(last.args.name \o ".py")
    /\ Issued(last.calls, "update_function_configuration") = 1
    /\ Issued(last.calls, "create_function") = 0
    /\ \A f \in FunctionsNamed(remote, last.args.name) : f.Timeout = Timeout
    /\ last.ret.Configuration.Timeout = Timeout

\* The positions of the calls of the current run whose name is one of `ops`.
Positions(ops) == {i \in 1..Len(runlog) : runlog[i].op \in ops}

\* The path of the resource of gateway g whose id is `id`.
PathOf(r, g, id) ==
    LET hits == {i \in 1..Len(r.resources) : r.resources[i].api = g /\ r.resources[i].id = id}
    IN IF hits = {} THEN "" ELSE r.resources[CHOOSE i \in hits : TRUE].path

\* The order of the remote calls of a run of main, so far.
CallOrder ==
    /\ \A i \in Positions({"get_resources", "create_resource", "get_method", "put_method",
                           "put_integration", "create_deployment", "update_stage"}) :
         /\ \E j \in Positions({"get_rest_apis"}) : j < i
         /\ \A j \in Positions({"get_rest_apis", "create_rest_api"}) : j < i
         /\ runlog[i].args.restApiId = locals.gateway_id
         /\ \E k \in 1..Len(remote.apis) :
              remote.apis[k].id = locals.gateway_id /\ remote.apis[k].name = GatewayName
    /\ \A i \in Positions({"put_integration"}) :
         /\ \E j \in Positions({"get_method"}) :
              /\ j < i
              /\ runlog[j].args.resourceId = runlog[i].args.resourceId
              /\ runlog[j].args.httpMethod = runlog[i].args.httpMethod
         /\ MethodsAt(remote, runlog[i].args.restApiId, runlog[i].args.resourceId, "GET") # {}
    /\ last.out # ClientError("NotFoundException", "PutIntegration")
    /\ \A i \in Positions({"put_integration", "add_permission"}) :
         /\ \E j \in Positions({"get_function"}) : j < i
         /\ \A j \in Positions({"create_role", "get_role", "attach_role_policy", "get_function",
                                "create_function", "update_function_configuration",
                                "update_function_code"}) : j < i
         /\ FunctionsNamed(remote, LambdaName) # {}
    /\ last.out # ClientError("ResourceNotFoundException", "AddPermission")
    /\ \A i \in Positions({"create_deployment"}) :
         LET puts == {j \in Positions({"put_integration"}) : j < i}
         IN /\ {PathOf(remote, locals.gateway_id, runlog[j].args.resourceId) : j \in puts}
                 = {"/", ProxyPath}
            /\ Cardinality(puts) = 2
            /\ \A j \in puts : runlog[j].args \in remote.integrations
            /\ Positions({"put_integration", "add_permission"}) \subseteq 1..(i - 1)
    /\ Cardinality(Positions({"create_deployment"})) <= 1
    /\ \A i \in Positions({"update_stage"}) :
         /\ \E j \in Positions({"create_deployment"}) : j = i - 1
         /\ i = Len(runlog)
    /\ pc = "aborted" =>
         /\ last.out # Ok
         /\ last.calls # <<>>
         /\ SubSeq(runlog, Len(runlog) - Len(last.calls) + 1, Len(runlog)) = last.calls

\* C18: in every run of main the gateway is resolved before any call on a
\* resource of it; the GET method of a resource is looked up (and put when
\* absent) before put_integration on that resource; the role and the function
\* are dealt with before the first put_integration and add_permission;
\* create_deployment comes after the integrations of '/' and '/{proxy+}' have
\* been put, and update_stage right after create_deployment. A step that
\* raises ends the run: the calls of that step are the last of the run, and
\* nothing happens to the account until the next run starts.
C18_DependencyOrder ==
    /\ []CallOrder
    /\ [][pc = "aborted" => (pc' = "create_gateway" /\ runlog' = <<>> /\ remote' = remote)]_vars

\* A complete run on an account that had nothing: seventeen calls or more, the last two
\* being create_deployment and update_stage.
C18_Witness ==
    /\ pc = "done"
    /\ started.apis = <<>>
    /\ started.functions = {}
    /\ Len(runlog) >= 17
    /\ runlog[Len(runlog) - 1].op = "create_deployment"
    /\ runlog[Len(runlog)].op = "update_stage"
    /\ Cardinality(Positions({"put_integration"})) = 2
    /\ Cardinality(Positions({"create_resource"})) = 1

\* Everything account a holds, account b holds too: no gateway, resource,
\* method, integration, role, attached policy, function, permission statement,
\* deployment or stage of a is missing in b.
Kept(a, b) ==
    /\ Len(a.apis) <= Len(b.apis) /\ SubSeq(b.apis, 1, Len(a.apis)) = a.apis
    /\ Len(a.resources) <= Len(b.resources)
    /\ SubSeq(b.resources, 1, Len(a.resources)) = a.resources
    /\ Len(a.deployments) <= Len(b.deployments)
    /\ SubSeq(b.deployments, 1, Len(a.deployments)) = a.deployments
    /\ a.methods \subseteq b.methods
    /\ \A i \in a.integrations : \E j \in b.integrations :
         /\ i.restApiId = j.restApiId
         /\ i.resourceId = j.resourceId
         /\ i.httpMethod = j.httpMethod
    /\ a.roles \subseteq b.roles
    /\ a.attached \subseteq b.attached
    /\ a.policy \subseteq b.policy
    /\ \A f \in a.functions : \E h \in b.functions : f.FunctionName = h.FunctionName
    /\ \A st \in a.stages : \E su \in b.stages : st.api = su.api /\ st.stageName = su.stageName

\* The first of the aborted runs that run n follows without a complete run between.
ChainStart(n) ==
    LET starts == {k \in 1..(n - 1) : \A j \in k..(n - 1) : ~runs[j].ok}
    IN IF starts = {} THEN n ELSE CHOOSE k \in starts : \A j \in starts : k <= j

\* C15, as the code has it: no step of a run removes anything from the account,
\* so what an aborted run created is there when the next run starts. A
\* complete run that follows aborted runs leaves no duplicate and leaves every
\* gateway, resource, method, integration, permission statement, role,
\* attached policy, function and stage setting as a single complete run from
\* the original account leaves it; it leaves the same deployments too, except
\* that each run aborted after its create_deployment (at update_stage) has
\* left one deployment more.
C15_AbortKeepsRerunConverges ==
    /\ Kept(pre, remote)
    /\ Kept(started, remote)
    /\ \A i \in 2..Len(runs) : runs[i].start = runs[i - 1].remote
    /\ \A i \in 1..Len(runs) : Kept(runs[i].start, runs[i].remote)
    /\ (pc = "done" /\ ChainStart(Len(runs)) < Len(runs)) =>
         LET n == Len(runs)
             k == ChainStart(n)
             single == main(runs[k].start)
             extra == Cardinality({j \in k..(n - 1) :
                         Len(runs[j].remote.deployments) > Len(runs[j].start.deployments)})
         IN /\ runs[n].ok
            /\ single.out = Ok
            /\ NoDuplicates(runs[n].remote, runs[k].start)
            /\ Provisioned(runs[n].remote) = Provisioned(single.r)
            /\ Len(runs[n].remote.deployments) = Len(single.r.deployments) + extra
            /\ extra = 0 => runs[n].remote = single.r

\* A run on an account that had nothing is aborted after it created the
\* gateway, the function and the wildcard child; the next run is complete.
C15_Witness ==
    /\ pc = "done"
    /\ Len(runs) = 2
    /\ ~runs[1].ok /\ runs[2].ok
    /\ runs[1].start.apis = <<>> /\ runs[1].start.functions = {} /\ runs[1].start.roles = {}
    /\ Len(runs[1].remote.resources) = 2
    /\ runs[1].remote.functions # {}
    /\ Cardinality(runs[1].remote.integrations) = 1
    /\ runs[2].remote = main(runs[1].start).r
    /\ Cardinality(runs[2].remote.integrations) = 2

\* C15, as claimed: a complete run after an aborted run ends in the very
\* account a single complete run from the original account ends in.
C15_RerunEqualsSingleRun ==
    (pc = "done" /\ Len(runs) >= 2 /\ ~runs[Len(runs) - 1].ok) =>
        runs[Len(runs)].remote = main(runs[Len(runs) - 1].start).r

\* A complete run ends in the account that main, taken as one function, yields.
MainIsItsSteps ==
    pc = "done" => (remote = main(started).r /\ runlog = main(started).calls)

====
